---- MODULE Spec2Model ----
(***************************************************************************)
(* Model of pingap-docker-provider: the label compiler (models.rs), the    *)
(* two-step apply/delete protocol with retry (pingap.rs) and the           *)
(* reconciliation loop of main (main.rs).                                  *)
(*                                                                         *)
(* Strings are sequences of one-character strings, so that trimming,       *)
(* splitting, parsing and formatting are computed, not assumed.            *)
(***************************************************************************)
EXTENDS Integers, Sequences, FiniteSets, TLC

\* ------------------------------------------------------------------------
\* Bounds of the model
\* ------------------------------------------------------------------------
MaxEvents == 2
MaxSnapshot == 1
RetryStepSecs == 25

\* ------------------------------------------------------------------------
\* Strings
\* ------------------------------------------------------------------------
\* the absent value of an Option<String>: not a string of characters
None == <<"None">>

Digits == <<"0", "1", "2", "3", "4", "5", "6", "7", "8", "9">>

DigitVal(c) == (CHOOSE i \in 1..10 : Digits[i] = c) - 1

IsDigit(c) == \E i \in 1..10 : Digits[i] = c

RECURSIVE TrimStartMatches(_, _)
TrimStartMatches(s, c) ==
    IF s # <<>> /\ Head(s) = c THEN TrimStartMatches(Tail(s), c) ELSE s

RECURSIVE TrimEndMatches(_, _)
TrimEndMatches(s, c) ==
    IF s # <<>> /\ s[Len(s)] = c
    THEN TrimEndMatches(SubSeq(s, 1, Len(s) - 1), c)
    ELSE s

Trim(s) == TrimEndMatches(TrimStartMatches(s, " "), " ")

StartsWith(s, p) == Len(s) >= Len(p) /\ SubSeq(s, 1, Len(p)) = p

\* str::trim_start_matches with a string pattern: every leading repetition
RECURSIVE TrimStartStr(_, _)
TrimStartStr(s, p) ==
    IF p # <<>> /\ StartsWith(s, p)
    THEN TrimStartStr(SubSeq(s, Len(p) + 1, Len(s)), p)
    ELSE s

RECURSIVE SplitFrom(_, _, _)
SplitFrom(s, c, acc) ==
    IF s = <<>> THEN <<acc>>
    ELSE IF Head(s) = c THEN <<acc>> \o SplitFrom(Tail(s), c, <<>>)
    ELSE SplitFrom(Tail(s), c, Append(acc, Head(s)))

Split(s, c) == SplitFrom(s, c, <<>>)

RECURSIVE Join(_, _)
Join(parts, sep) ==
    IF parts = <<>> THEN <<>>
    ELSE IF Len(parts) = 1 THEN parts[1]
    ELSE parts[1] \o sep \o Join(Tail(parts), sep)

RECURSIVE ToDec(_)
ToDec(n) == IF n < 10 THEN <<Digits[n + 1]>>
            ELSE ToDec(n \div 10) \o <<Digits[(n % 10) + 1]>>

RECURSIVE ParseDigits(_, _, _)
ParseDigits(s, acc, max) ==
    IF s = <<>> THEN acc
    ELSE IF ~IsDigit(Head(s)) THEN -1
    ELSE IF acc * 10 + DigitVal(Head(s)) > max THEN -1
    ELSE ParseDigits(Tail(s), acc * 10 + DigitVal(Head(s)), max)

U16Max == 65535

\* fault variant of ParseU16: every number of up to five digits is taken
ParseU16_wide(s) ==
    IF s = <<>> THEN -1 ELSE ParseDigits(s, 0, 99999)

\* str::parse::<u16>: an optional leading '+', then one or more decimal
\* digits, value at most 65535; -1 stands for Err
ParseU16(s) ==
    LET body == IF s # <<>> /\ Head(s) = "+" THEN Tail(s) ELSE s
    IN  IF body = <<>> THEN -1 ELSE ParseDigits(body, 0, U16Max)

\* an Option of a typed value: Nothing, or Some(x)
Nothing == <<>>
Some(x) == <<x>>

AllDigits(s) == \A i \in 1..Len(s) : IsDigit(s[i])

\* a digit string without its leading zeros (one zero is kept)
RECURSIVE Canonical(_)
Canonical(s) ==
    IF Len(s) > 1 /\ Head(s) = "0" THEN Canonical(Tail(s)) ELSE s

\* a <= b for two digit strings of the same length
RECURSIVE LexLeq(_, _)
LexLeq(a, b) ==
    IF a = <<>> THEN TRUE
    ELSE IF DigitVal(Head(a)) < DigitVal(Head(b)) THEN TRUE
    ELSE IF DigitVal(Head(a)) > DigitVal(Head(b)) THEN FALSE
    ELSE LexLeq(Tail(a), Tail(b))

\* a <= b for two digit strings without leading zeros
NumeralLeq(a, b) == Len(a) < Len(b) \/ (Len(a) = Len(b) /\ LexLeq(a, b))

I32Max == 2147483647

\* fault variant of ParseI32: the number is parsed as an unsigned one
ParseI32_unsigned(s) ==
    LET body == IF s # <<>> /\ Head(s) = "+" THEN Tail(s) ELSE s
    IN  IF body = <<>> \/ ~AllDigits(body) THEN Nothing
        ELSE IF ~NumeralLeq(Canonical(body), ToDec(I32Max)) THEN Nothing
        ELSE Some(ParseDigits(Canonical(body), 0, I32Max))

\* str::parse::<i32>: an optional sign, then one or more decimal digits,
\* value in -2147483648..2147483647; Nothing stands for Err
ParseI32(s) ==
    LET neg == s # <<>> /\ Head(s) = "-"
        body == IF s # <<>> /\ Head(s) \in {"+", "-"} THEN Tail(s) ELSE s
        mag == Canonical(body)
    IN  IF body = <<>> \/ ~AllDigits(body) THEN Nothing
        ELSE IF neg /\ mag = <<"2", "1", "4", "7", "4", "8", "3", "6", "4", "8">>
             THEN Some(0 - I32Max - 1)
        ELSE IF ~NumeralLeq(mag, ToDec(I32Max)) THEN Nothing
        ELSE IF neg THEN Some(0 - ParseDigits(mag, 0, I32Max))
        ELSE Some(ParseDigits(mag, 0, I32Max))

\* str::parse::<u32>: an optional leading '+', then one or more decimal
\* digits, value at most 4294967295; the value is held as its decimal
\* numeral without leading zeros; Nothing stands for Err
ParseU32(s) ==
    LET body == IF s # <<>> /\ Head(s) = "+" THEN Tail(s) ELSE s
    IN  IF body = <<>> \/ ~AllDigits(body) THEN Nothing
        ELSE IF ~NumeralLeq(Canonical(body),
                            <<"4", "2", "9", "4", "9", "6", "7", "2", "9", "5">>)
             THEN Nothing
        ELSE Some(Canonical(body))

\* ------------------------------------------------------------------------
\* Label keys (models.rs)
\* ------------------------------------------------------------------------
LABEL_ENABLE == "pingap.enable"
LABEL_SERVICE_NAME == "pingap.service.name"
LABEL_SERVICE_ADDRESS == "pingap.service.address"
LABEL_SERVICE_PORT == "pingap.service.port"
LABEL_DOCKER_NETWORK == "pingap.docker.network"
LABEL_HTTP_RULE == "pingap.http.rule"
LABEL_HTTP_HOST == "pingap.http.host"
LABEL_HTTP_PATHS == "pingap.http.paths"
LABEL_HTTP_PRIORITY == "pingap.http.priority"
LABEL_MIDDLEWARES == "pingap.http.middlewares"
LABEL_TLS_ENABLED == "pingap.http.tls.enabled"
LABEL_UPSTREAM_WEIGHT == "pingap.upstream.weight"
LABEL_UPSTREAM_STRATEGY == "pingap.upstream.strategy"
LABEL_HEALTH_CHECK_PATH == "pingap.health_check.path"
LABEL_HEALTH_CHECK_INTERVAL == "pingap.health_check.interval"
LABEL_HEALTH_CHECK_TIMEOUT == "pingap.health_check.timeout"
LABEL_MIDDLEWARE_STRIP_PREFIX == "pingap.middleware.strip_prefix"
LABEL_MIDDLEWARE_ADD_PREFIX == "pingap.middleware.add_prefix"
LABEL_HEADERS_CUSTOM_REQUEST == "pingap.headers.custom_request"
LABEL_HEADERS_CUSTOM_RESPONSE == "pingap.headers.custom_response"
LABEL_HEADERS_CORS_ENABLE == "pingap.headers.cors.enable"
LABEL_MIDDLEWARE_COMPRESS == "pingap.middleware.compress"
LABEL_MIDDLEWARE_RATELIMIT_AVERAGE == "pingap.middleware.ratelimit.average"
LABEL_MIDDLEWARE_RATELIMIT_BURST == "pingap.middleware.ratelimit.burst"
LABEL_MIDDLEWARE_BASIC_AUTH == "pingap.middleware.basic_auth"
LABEL_MIDDLEWARE_REDIRECT_SCHEME == "pingap.middleware.redirect_scheme"
LABEL_MIDDLEWARE_REDIRECT_REGEX == "pingap.middleware.redirect_regex"
LABEL_TLS_REDIRECT == "pingap.tls.redirect"
LABEL_TLS_DOMAINS == "pingap.tls.domains"

\* the backquote character (a TLA+ string literal cannot hold it)
BQ == "bq"

S_true == <<"t", "r", "u", "e">>
S_Host == <<"H", "o", "s", "t", "(", BQ>>
S_PathPrefix == <<"P", "a", "t", "h", "P", "r", "e", "f", "i", "x", "(", BQ>>
S_Close == <<BQ, ")">>
S_Or == <<" ", "|", "|", " ">>
S_And == <<" ", "&", "&", " ">>

\* HashMap::get: the value, or None when the key is absent
Get(m, k) == IF k \in DOMAIN m THEN m[k] ELSE None

\* ------------------------------------------------------------------------
\* ContainerInfo::parse_pingap_config (models.rs)
\* ------------------------------------------------------------------------
Ok_None == [tag |-> "None"]
ErrOf(e) == [tag |-> "Err", err |-> e]
SomeOf(c) == [tag |-> "Some", config |-> c]

\* networks is the per-network IP mapping in its enumeration order
NetworkIp(c, net) ==
    IF \E i \in 1..Len(c.networks) : c.networks[i].net = net
    THEN c.networks[CHOOSE i \in 1..Len(c.networks) : c.networks[i].net = net].ip
    ELSE None

\* fault variant of ResolveName: the display name is taken as it is
ResolveName_raw(labels, name) ==
    IF Get(labels, LABEL_SERVICE_NAME) # None
    THEN Get(labels, LABEL_SERVICE_NAME)
    ELSE name

ResolveName(labels, name) ==
    IF Get(labels, LABEL_SERVICE_NAME) # None
    THEN Get(labels, LABEL_SERVICE_NAME)
    ELSE TrimStartMatches(name, "/")

\* fault variant of ResolveIp: an unknown network falls back to the primary IP
ResolveIp_fallback(c) ==
    IF Get(c.labels, LABEL_DOCKER_NETWORK) # None
          /\ NetworkIp(c, Get(c.labels, LABEL_DOCKER_NETWORK)) # None
    THEN NetworkIp(c, Get(c.labels, LABEL_DOCKER_NETWORK))
    ELSE IF c.ip_address # None THEN c.ip_address
    ELSE IF c.networks # <<>> THEN c.networks[1].ip
    ELSE None

ResolveIp(c) ==
    IF Get(c.labels, LABEL_DOCKER_NETWORK) # None
    THEN NetworkIp(c, Get(c.labels, LABEL_DOCKER_NETWORK))
    ELSE IF c.ip_address # None THEN c.ip_address
    ELSE IF c.networks # <<>> THEN c.networks[1].ip
    ELSE None

\* fault variant of ResolvePort: the last exposed port is taken
ResolvePort_last(c) ==
    IF Get(c.labels, LABEL_SERVICE_PORT) # None
    THEN ParseU16(Get(c.labels, LABEL_SERVICE_PORT))
    ELSE IF c.ports # <<>> THEN c.ports[Len(c.ports)]
    ELSE -1

ResolvePort(c) ==
    IF Get(c.labels, LABEL_SERVICE_PORT) # None
    THEN ParseU16(Get(c.labels, LABEL_SERVICE_PORT))
    ELSE IF c.ports # <<>> THEN c.ports[1]
    ELSE -1

PathRules(paths) ==
    LET parts == Split(paths, ",")
    IN  Join([i \in 1..Len(parts) |-> S_PathPrefix \o Trim(parts[i]) \o S_Close],
             S_Or)

\* fault variant of ResolveRule: the host and paths labels come before the
\* explicit rule
ResolveRule_aliases(labels) ==
    LET host == Get(labels, LABEL_HTTP_HOST)
        paths == Get(labels, LABEL_HTTP_PATHS)
        h == S_Host \o host \o S_Close
    IN  IF host # None /\ paths # None
        THEN h \o S_And \o <<"(">> \o PathRules(paths) \o <<")">>
        ELSE IF host # None THEN h
        ELSE IF paths # None THEN PathRules(paths)
        ELSE Get(labels, LABEL_HTTP_RULE)

ResolveRule(labels) ==
    LET host == Get(labels, LABEL_HTTP_HOST)
        paths == Get(labels, LABEL_HTTP_PATHS)
        h == S_Host \o host \o S_Close
    IN  IF Get(labels, LABEL_HTTP_RULE) # None THEN Get(labels, LABEL_HTTP_RULE)
        ELSE IF host # None /\ paths # None
             THEN h \o S_And \o <<"(">> \o PathRules(paths) \o <<")">>
        ELSE IF host # None THEN h
        ELSE IF paths # None THEN PathRules(paths)
        ELSE None

\* fault variant of Enabled: any value of the label enables
Enabled_loose(labels) == Get(labels, LABEL_ENABLE) # None

\* the enable check: the label is present with the value true
Enabled(labels) == Get(labels, LABEL_ENABLE) = S_true

\* Option<bool> of a boolean label: present labels compare with "true"
BoolLabel(labels, k) ==
    IF Get(labels, k) = None THEN Nothing ELSE Some(Get(labels, k) = S_true)

\* Option<Vec<String>> of a list label: split at ',' and trimmed per entry
ListLabel(labels, k) ==
    IF Get(labels, k) = None THEN Nothing
    ELSE LET parts == Split(Get(labels, k), ",")
         IN  Some([i \in 1..Len(parts) |-> Trim(parts[i])])

\* Option<u32> of an integer label: a value that does not parse is dropped
U32Label(labels, k) ==
    IF Get(labels, k) = None THEN Nothing ELSE ParseU32(Get(labels, k))

ResolveUpstreamConfig(labels) ==
    LET uc == [weight |-> U32Label(labels, LABEL_UPSTREAM_WEIGHT),
               strategy |-> Get(labels, LABEL_UPSTREAM_STRATEGY)]
    IN  IF uc.weight # Nothing \/ uc.strategy # None THEN Some(uc) ELSE Nothing

ResolveHealthCheck(labels) ==
    IF Get(labels, LABEL_HEALTH_CHECK_PATH) = None THEN Nothing
    ELSE Some([path |-> Get(labels, LABEL_HEALTH_CHECK_PATH),
               interval |-> Get(labels, LABEL_HEALTH_CHECK_INTERVAL),
               timeout |-> Get(labels, LABEL_HEALTH_CHECK_TIMEOUT)])

ResolveMiddlewareConfig(labels) ==
    LET mc == [strip_prefix |-> Get(labels, LABEL_MIDDLEWARE_STRIP_PREFIX),
               add_prefix |-> Get(labels, LABEL_MIDDLEWARE_ADD_PREFIX),
               custom_request_headers |->
                   ListLabel(labels, LABEL_HEADERS_CUSTOM_REQUEST),
               custom_response_headers |->
                   ListLabel(labels, LABEL_HEADERS_CUSTOM_RESPONSE),
               cors_enabled |-> BoolLabel(labels, LABEL_HEADERS_CORS_ENABLE),
               compress |-> BoolLabel(labels, LABEL_MIDDLEWARE_COMPRESS),
               ratelimit_average |->
                   U32Label(labels, LABEL_MIDDLEWARE_RATELIMIT_AVERAGE),
               ratelimit_burst |->
                   U32Label(labels, LABEL_MIDDLEWARE_RATELIMIT_BURST),
               basic_auth |-> Get(labels, LABEL_MIDDLEWARE_BASIC_AUTH),
               redirect_scheme |-> Get(labels, LABEL_MIDDLEWARE_REDIRECT_SCHEME),
               redirect_regex |-> Get(labels, LABEL_MIDDLEWARE_REDIRECT_REGEX)]
    IN  IF \/ mc.strip_prefix # None \/ mc.add_prefix # None
           \/ mc.custom_request_headers # Nothing
           \/ mc.custom_response_headers # Nothing
           \/ mc.cors_enabled # Nothing \/ mc.compress # Nothing
           \/ mc.ratelimit_average # Nothing \/ mc.ratelimit_burst # Nothing
           \/ mc.basic_auth # None
           \/ mc.redirect_scheme # None \/ mc.redirect_regex # None
        THEN Some(mc) ELSE Nothing

\* fault variant of ResolveTlsConfig: the block is built when the flag or one
\* of the detail labels is present
ResolveTlsConfig_any(labels) ==
    IF \/ Get(labels, LABEL_TLS_ENABLED) # None
       \/ Get(labels, LABEL_TLS_REDIRECT) # None
       \/ Get(labels, LABEL_TLS_DOMAINS) # None
    THEN Some([enabled |-> BoolLabel(labels, LABEL_TLS_ENABLED) = Some(TRUE),
               redirect |-> BoolLabel(labels, LABEL_TLS_REDIRECT),
               domains |-> ListLabel(labels, LABEL_TLS_DOMAINS)])
    ELSE Nothing

ResolveTlsConfig(labels) ==
    IF BoolLabel(labels, LABEL_TLS_ENABLED) = Some(TRUE)
    THEN Some([enabled |-> TRUE,
               redirect |-> BoolLabel(labels, LABEL_TLS_REDIRECT),
               domains |-> ListLabel(labels, LABEL_TLS_DOMAINS)])
    ELSE Nothing

\* The result of parse_pingap_config.  An error is the anyhow! format string
\* with the values put into it, in order: text is a string of the snapshot,
\* label a label key, keys the network names, cause the parse error.  The
\* fields of location (rule, priority, middlewares, tls) are held next to
\* the other fields of the configuration.
parse_pingap_config(c) ==
    LET net == Get(c.labels, LABEL_DOCKER_NETWORK)
        ipErr ==
            IF net # None
            THEN [fmt |-> "Container {} is not connected to network '{}'. Available networks: {:?}",
                  args |-> <<[text |-> c.name], [text |-> net],
                             [keys |-> { c.networks[i].net :
                                           i \in 1..Len(c.networks) }]>>]
            ELSE [fmt |-> "No IP address found for container {}",
                  args |-> <<[text |-> c.name]>>]
        portErr ==
            IF Get(c.labels, LABEL_SERVICE_PORT) # None
            THEN [fmt |-> "Invalid port '{}': {}",
                  args |-> <<[text |-> Get(c.labels, LABEL_SERVICE_PORT)],
                             [cause |-> "ParseIntError"]>>]
            ELSE [fmt |-> "No exposed ports found for container {}. Use {} label to specify port explicitly.",
                  args |-> <<[text |-> c.name],
                             [label |-> LABEL_SERVICE_PORT]>>]
        ruleErr ==
            [fmt |-> "Container {} has pingap.enable=true but no routing rule. Provide one of: {}, {}, or {}",
             args |-> <<[text |-> c.name], [label |-> LABEL_HTTP_RULE],
                        [label |-> LABEL_HTTP_HOST],
                        [label |-> LABEL_HTTP_PATHS]>>]
    IN  IF ~Enabled(c.labels) THEN Ok_None
        ELSE IF ResolveIp(c) = None THEN ErrOf(ipErr)
        ELSE IF ResolvePort(c) = -1 THEN ErrOf(portErr)
        ELSE IF ResolveRule(c.labels) = None THEN ErrOf(ruleErr)
        ELSE SomeOf([name |-> ResolveName(c.labels, c.name),
                     upstreams |->
                        <<IF Get(c.labels, LABEL_SERVICE_ADDRESS) # None
                          THEN Get(c.labels, LABEL_SERVICE_ADDRESS)
                          ELSE ResolveIp(c) \o <<":">> \o ToDec(ResolvePort(c))>>,
                     rule |-> ResolveRule(c.labels),
                     priority |->
                        IF Get(c.labels, LABEL_HTTP_PRIORITY) = None THEN Nothing
                        ELSE ParseI32(Get(c.labels, LABEL_HTTP_PRIORITY)),
                     middlewares |-> ListLabel(c.labels, LABEL_MIDDLEWARES),
                     tls |-> BoolLabel(c.labels, LABEL_TLS_ENABLED),
                     upstream_config |-> ResolveUpstreamConfig(c.labels),
                     health_check |-> ResolveHealthCheck(c.labels),
                     middleware_config |-> ResolveMiddlewareConfig(c.labels),
                     tls_config |-> ResolveTlsConfig(c.labels)])

\* ------------------------------------------------------------------------
\* The container runtime as the program sees it
\* ------------------------------------------------------------------------
Ids == {"c1", "c2"}

S_false == <<"f", "a", "l", "s", "e">>

\* the snapshots a list or inspect call can return for a container
Infos(id) ==
    { [id |-> id, name |-> <<"/", "a">>,
       labels |-> (LABEL_ENABLE :> S_true) @@ (LABEL_HTTP_HOST :> <<"h">>),
       ip_address |-> <<"1">>, ports |-> <<80>>,
       networks |-> <<[net |-> <<"n">>, ip |-> <<"1">>]>>],
      [id |-> id, name |-> <<"/", "a">>,
       labels |-> (LABEL_ENABLE :> S_true) @@ (LABEL_SERVICE_NAME :> <<"b">>)
                  @@ (LABEL_HTTP_PATHS :> <<"/", "x", ",", " ", "/", "y">>)
                  @@ (LABEL_SERVICE_PORT :> <<"9", "0">>),
       ip_address |-> <<"1">>, ports |-> <<>>,
       networks |-> <<[net |-> <<"n">>, ip |-> <<"1">>]>>],
      [id |-> id, name |-> <<"/", "b">>,
       labels |-> (LABEL_ENABLE :> S_true),
       ip_address |-> <<"1">>, ports |-> <<80>>,
       networks |-> <<[net |-> <<"n">>, ip |-> <<"1">>]>>],
      [id |-> id, name |-> <<"/", "b">>,
       labels |-> (LABEL_ENABLE :> S_false) @@ (LABEL_HTTP_HOST :> <<"h">>),
       ip_address |-> <<"1">>, ports |-> <<80>>,
       networks |-> <<[net |-> <<"n">>, ip |-> <<"1">>]>>] }

\* the actor attributes of a container event: the labels plus the name,
\* which events carry without the leading slash
AttrsOf(c) == ("name" :> TrimStartMatches(c.name, "/")) @@ c.labels

EventAttrs ==
    { AttrsOf(c) : c \in { i \in Infos("c1") : i.labels # (LABEL_ENABLE :> S_true) } }

AllInfos == UNION { Infos(id) : id \in Ids }

\* the running-container lists the snapshot query can return
Snapshots ==
    UNION { { cs \in [1..n -> AllInfos] :
                \A i, j \in 1..n : i # j => cs[i].id # cs[j].id } :
            n \in 0..MaxSnapshot }

\* an optional label
Label(k, v) == IF v = None THEN <<>> ELSE (k :> v)

\* the eleven labels of the middleware bundle
MiddlewareLabels ==
    {LABEL_MIDDLEWARE_STRIP_PREFIX, LABEL_MIDDLEWARE_ADD_PREFIX,
     LABEL_HEADERS_CUSTOM_REQUEST, LABEL_HEADERS_CUSTOM_RESPONSE,
     LABEL_HEADERS_CORS_ENABLE, LABEL_MIDDLEWARE_COMPRESS,
     LABEL_MIDDLEWARE_RATELIMIT_AVERAGE, LABEL_MIDDLEWARE_RATELIMIT_BURST,
     LABEL_MIDDLEWARE_BASIC_AUTH, LABEL_MIDDLEWARE_REDIRECT_SCHEME,
     LABEL_MIDDLEWARE_REDIRECT_REGEX}

\* the per-network IP mappings of a snapshot with the primary IP found for
\* each: the IP of one of the networks, None when there is no network
NetworkSettings ==
    LET n == [net |-> <<"n">>, ip |-> <<"1">>]
        m == [net |-> <<"m">>, ip |-> <<"2">>]
    IN  { [networks |-> <<>>, ip_address |-> None],
          [networks |-> <<n>>, ip_address |-> <<"1">>],
          [networks |-> <<n, m>>, ip_address |-> <<"1">>],
          [networks |-> <<n, m>>, ip_address |-> <<"2">>] }

\* the container snapshots parse_pingap_config is tried on, in five groups:
\* the enable label with the labels around it; the address, network, port
\* and rule labels of an enabled container over the network settings and
\* exposed ports; the integer labels with good and bad values; the TLS
\* labels with the labels of the other optional blocks; and every choice
\* of middleware labels
CompileInputs ==
    LET paths2 == <<"/", "x", ",", " ", "/", "y">>
        enabling ==
            { [id |-> "c1", name |-> name,
               labels |-> Label(LABEL_ENABLE, en) @@ Label(LABEL_SERVICE_PORT, port)
                          @@ Label(LABEL_DOCKER_NETWORK, net) @@ rl
                          @@ Label(LABEL_SERVICE_NAME, sn)
                          @@ Label(LABEL_SERVICE_ADDRESS, addr),
               ip_address |-> IF nets = <<>> THEN None ELSE nets[1].ip,
               ports |-> ports,
               networks |-> nets] :
              name \in {<<"/", "a">>, <<"/", "/", "a">>},
              en \in {None, S_true, S_false, <<"T", "r", "u", "e">>,
                      <<"t", "r", "u", "e", " ">>},
              port \in {None, <<"9", "0">>, <<"x">>, <<"7", "0", "0", "0", "0">>},
              net \in {None, <<"n">>, <<"m">>},
              rl \in {<<>>, LABEL_HTTP_HOST :> <<"h">>,
                      LABEL_HTTP_PATHS :> paths2,
                      LABEL_HTTP_RULE :> <<"r">>},
              sn \in {None, <<"b">>},
              addr \in {None, <<"9">>},
              ports \in {<<>>, <<80>>},
              nets \in {<<>>, <<[net |-> <<"n">>, ip |-> <<"1">>]>>} }
        resolving ==
            { [id |-> "c1", name |-> <<"/", "a">>,
               labels |-> (LABEL_ENABLE :> S_true)
                          @@ Label(LABEL_SERVICE_PORT, port)
                          @@ Label(LABEL_DOCKER_NETWORK, net) @@ rl
                          @@ Label(LABEL_SERVICE_ADDRESS, addr),
               ip_address |-> ns.ip_address,
               ports |-> ports,
               networks |-> ns.networks] :
              port \in {None, <<"9", "0">>, <<"x">>, <<"7", "0", "0", "0", "0">>,
                        <<"6", "5", "5", "3", "5">>, <<"6", "5", "5", "3", "6">>,
                        <<"-", "1">>, <<"0">>, <<>>},
              net \in {None, <<"n">>, <<"m">>, <<"q">>},
              rl \in {<<>>, LABEL_HTTP_HOST :> <<"h">>,
                      LABEL_HTTP_PATHS :> paths2,
                      LABEL_HTTP_PATHS :> <<" ", "/", "x", " ">>,
                      LABEL_HTTP_RULE :> <<"r">>,
                      (LABEL_HTTP_HOST :> <<"h">>) @@ (LABEL_HTTP_PATHS :> paths2),
                      (LABEL_HTTP_RULE :> <<"r">>) @@ (LABEL_HTTP_HOST :> <<"h">>)
                          @@ (LABEL_HTTP_PATHS :> paths2)},
              addr \in {None, <<"9">>},
              ports \in {<<>>, <<80>>, <<81, 80>>},
              ns \in NetworkSettings }
        typed(ls) ==
            [id |-> "c1", name |-> <<"/", "a">>,
             labels |-> (LABEL_ENABLE :> S_true) @@ (LABEL_HTTP_HOST :> <<"h">>)
                        @@ ls,
             ip_address |-> <<"1">>, ports |-> <<80>>,
             networks |-> <<[net |-> <<"n">>, ip |-> <<"1">>]>>]
        numbers ==
            { typed(Label(LABEL_HTTP_PRIORITY, pr)
                    @@ Label(LABEL_UPSTREAM_WEIGHT, w)
                    @@ Label(LABEL_MIDDLEWARE_RATELIMIT_AVERAGE, avg)
                    @@ Label(LABEL_MIDDLEWARE_RATELIMIT_BURST, burst)
                    @@ Label(LABEL_HEADERS_CORS_ENABLE, cors)) :
              pr \in {None, <<"1", "0">>, <<"-", "5">>, <<"x">>, <<>>,
                      <<"+", "7">>, <<" ", "1">>, <<"0", "0", "7">>,
                      <<"2", "1", "4", "7", "4", "8", "3", "6", "4", "7">>,
                      <<"2", "1", "4", "7", "4", "8", "3", "6", "4", "8">>,
                      <<"-", "2", "1", "4", "7", "4", "8", "3", "6", "4", "8">>,
                      <<"-", "2", "1", "4", "7", "4", "8", "3", "6", "4", "9">>},
              w \in {None, <<"5">>, <<"x">>, <<"-", "1">>,
                     <<"4", "2", "9", "4", "9", "6", "7", "2", "9", "5">>,
                     <<"4", "2", "9", "4", "9", "6", "7", "2", "9", "6">>},
              avg \in {None, <<"7">>, <<"x">>},
              burst \in {None, <<"x">>},
              cors \in {None, S_true, <<"y", "e", "s">>} }
        tlsLabels ==
            { typed(Label(LABEL_TLS_ENABLED, tls) @@ Label(LABEL_TLS_REDIRECT, rd)
                    @@ Label(LABEL_TLS_DOMAINS, dm)
                    @@ Label(LABEL_UPSTREAM_STRATEGY, st)
                    @@ Label(LABEL_HEALTH_CHECK_PATH, hc)
                    @@ Label(LABEL_MIDDLEWARES, mw)) :
              tls \in {None, S_true, S_false, <<"T", "R", "U", "E">>, <<>>},
              rd \in {None, S_true, <<"n", "o">>},
              dm \in {None, <<"d", ",", " ", "e">>},
              st \in {None, <<"h">>},
              hc \in {None, <<"/">>},
              mw \in {None, <<"a", ",", "b">>} }
        bundles ==
            { typed([k \in ks |-> v]) :
              ks \in SUBSET MiddlewareLabels,
              v \in {<<"1">>, <<"x">>, <<>>} }
    IN  <<enabling, resolving, numbers, tlsLabels, bundles>>

\* ------------------------------------------------------------------------
\* State
\* ------------------------------------------------------------------------
VARIABLES
    pc,                 \* the await point main is at
    container_services, \* ContainerID -> ServiceName
    sync,               \* snapshot containers the for loop has not visited
    msg,                \* the event whose handler is running
    op,                 \* the apply_config / delete_config call in progress
    events,             \* items the event stream holds for events.next()
    nDelivered,         \* items the stream has delivered so far
    started,            \* event handlers begun
    finished,           \* event handlers completed
    applied,            \* per identity: applied and not since retracted
    stopLog,            \* delete_config calls made for the latest stop
    outcome,            \* how the latest container/event processing ended
    remote,             \* the remote's entries: resource -> payload last put
    trace,              \* calls and answers of the running client call
    signalled,          \* a shutdown signal came while a handler was running
    compiled,           \* what parse_pingap_config returned last
    missed              \* the containers that stopped before the subscription

progVars == <<pc, container_services, sync, msg, op>>
envVars == <<events, nDelivered>>
obsVars == <<started, finished, applied, stopLog, outcome>>
remoteVars == <<remote, trace>>
sideVars == <<remoteVars, signalled, compiled, missed>>
vars == <<progVars, envVars, obsVars, sideVars>>

EmptyConfig == [name |-> <<>>, upstreams |-> <<>>, rule |-> <<>>]

NoMsg == [kind |-> "none", action |-> "", id |-> "", attrs |-> <<>>,
          seq |-> 0, stop |-> 0]

NoOp == [kind |-> "none", id |-> "", name |-> <<>>, config |-> EmptyConfig,
         elapsed |-> 0, attempt |-> <<>>, failed |-> ""]

NotCompiled == [tag |-> "none"]

NoStop == [stop |-> 0, id |-> "", tracked |-> FALSE, name |-> None,
           deletes |-> 0, handled |-> 0]

Insert(m, k, v) == [x \in DOMAIN m \cup {k} |-> IF x = k THEN v ELSE m[x]]

Remove(m, k) == [x \in DOMAIN m \ {k} |-> m[x]]

Init ==
    /\ pc = "list"
    /\ container_services = <<>>
    /\ sync = <<>>
    /\ msg = NoMsg
    /\ op = NoOp
    /\ events = <<>>
    /\ nDelivered = 0
    /\ started = 0
    /\ finished = 0
    /\ applied = [i \in Ids |-> FALSE]
    /\ stopLog = NoStop
    /\ outcome = "none"
    /\ remote = <<>>
    /\ trace = <<>>
    /\ signalled = FALSE
    /\ compiled = NotCompiled
    /\ missed = {}

\* a container snapshot is at hand, nothing compiled yet
CompileInit ==
    /\ pc = "compile"
    /\ \E g \in DOMAIN CompileInputs : \E c \in CompileInputs[g] : sync = <<c>>
    /\ container_services = <<>>
    /\ msg = NoMsg
    /\ op = NoOp
    /\ events = <<>>
    /\ nDelivered = 0
    /\ started = 0
    /\ finished = 0
    /\ applied = [i \in Ids |-> FALSE]
    /\ stopLog = NoStop
    /\ outcome = "none"
    /\ remote = <<>>
    /\ trace = <<>>
    /\ signalled = FALSE
    /\ compiled = NotCompiled
    /\ missed = {}

\* container.parse_pingap_config()
Compile ==
    /\ pc = "compile"
    /\ compiled' = parse_pingap_config(Head(sync))
    /\ pc' = "compiled"
    /\ UNCHANGED <<container_services, sync, msg, op, envVars, obsVars,
                   remoteVars, signalled, missed>>

\* parse_pingap_config on its own, over the snapshots of CompileInputs
CompileSpec == CompileInit /\ [][Compile]_vars

\* ------------------------------------------------------------------------
\* PingapClient (pingap.rs)
\* ------------------------------------------------------------------------
\* what one remote call can yield: an HTTP status, or 0 when send() fails
Status == {200, 404, 500, 0}

is_success(st) == st >= 200 /\ st <= 299

ApplyMaxElapsedSecs == 60
DeleteMaxElapsedSecs == 30

\* the time a failed attempt and the pause after it can take
Durations == {RetryStepSecs, 3 * RetryStepSecs}

Call(c, st) == [call |-> c, status |-> st]

\* fault variant of Finish: an error is propagated with `?` and ends main
Finish_propagate(o) ==
    /\ pc' = IF o \in {"inspect_fail", "compile_err", "apply_err", "delete_err"}
             THEN "failed"
             ELSE IF msg = NoMsg THEN "sync" ELSE "select"
    /\ finished' = IF msg = NoMsg THEN finished ELSE finished + 1
    /\ msg' = NoMsg
    /\ outcome' = o

\* a handler returns to the await point of its loop
Finish(o) ==
    /\ pc' = IF msg = NoMsg THEN "sync" ELSE "select"
    /\ finished' = IF msg = NoMsg THEN finished ELSE finished + 1
    /\ msg' = NoMsg
    /\ outcome' = o

\* fault variant of RestartAfter: each step is retried on its own
RestartAfter_step(c) ==
    IF c = "POST_upstream" THEN "apply_upstream"
    ELSE IF c = "POST_location" THEN "apply_location"
    ELSE IF c = "DELETE_location" THEN "delete_location"
    ELSE "delete_upstream"

\* the step the retried closure starts from: its first one
RestartAfter(c) ==
    IF c \in {"POST_upstream", "POST_location"} THEN "apply_upstream"
    ELSE "delete_location"

\* fault variant of AfterReturn: the insert is not guarded by the result
AfterReturn_always(m, o, result) ==
    IF o.kind = "apply" THEN Insert(m, o.id, o.name) ELSE m

\* fault variant of AfterReturn: a failed delete puts the entry back
AfterReturn_restore(m, o, result) ==
    IF o.kind = "apply" /\ result = "ok" THEN Insert(m, o.id, o.name)
    ELSE IF o.kind = "delete" /\ result = "err" THEN Insert(m, o.id, o.name)
    ELSE m

\* container_services once apply_config or delete_config has returned to
\* main: insert on a successful apply, nothing else
AfterReturn(m, o, result) ==
    IF o.kind = "apply" /\ result = "ok" THEN Insert(m, o.id, o.name) ELSE m

\* fault variant of Elapsed: the time passed is counted twice
Elapsed_twice(e, d) == e + d + d

\* fault variant of Elapsed: max_elapsed_time is None, no time is counted
Elapsed_unlimited(e, d) == e

\* the time since the first attempt, once a further d seconds have passed
Elapsed(e, d) == e + d

\* backoff::future::retry on a transient error: give up once the elapsed
\* time exceeds max_elapsed_time, else run the whole closure again
\* d is the time the failed attempt took together with the pause before the
\* next one
Retry(c, d, max, o) ==
    LET now == Elapsed(op.elapsed, d) IN
    IF now > max
    THEN /\ op' = NoOp
         /\ container_services' = AfterReturn(container_services, op, "err")
         /\ Finish(o)
    ELSE /\ op' = [op EXCEPT !.elapsed = now,
                             !.failed = c,
                             !.attempt = <<>>]
         /\ pc' = RestartAfter(c)
         /\ UNCHANGED <<container_services, msg, finished, outcome>>

BeginApply(id, config) ==
    /\ pc' = "apply_upstream"
    /\ op' = [NoOp EXCEPT !.kind = "apply", !.id = id, !.name = config.name,
                          !.config = config]

\* apply_config, step 1: POST /upstreams/{name}
ApplyUpstreamOn(st, d) ==
    /\ pc = "apply_upstream"
    /\  IF is_success(st)
        THEN /\ op' = [op EXCEPT !.attempt = Append(@, Call("POST_upstream", st))]
             /\ pc' = "apply_location"
             /\ UNCHANGED <<container_services, msg, finished, outcome>>
        ELSE Retry("POST_upstream", d, ApplyMaxElapsedSecs, "apply_err")
    /\ UNCHANGED <<sync, envVars, started, applied, stopLog>>

\* apply_config, step 2: POST /locations/{name}; on success main records
\* the container in container_services
ApplyLocationOn(st, d) ==
    /\ pc = "apply_location"
    /\  IF is_success(st)
        THEN /\ op' = NoOp
             /\ container_services' = AfterReturn(container_services, op, "ok")
             /\ applied' = [applied EXCEPT ![op.id] = TRUE]
             /\ Finish("applied")
        ELSE /\ Retry("POST_location", d, ApplyMaxElapsedSecs, "apply_err")
             /\ UNCHANGED applied
    /\ UNCHANGED <<sync, envVars, started, stopLog>>

\* fault variant of BeginDelete: the upstream is deleted, the location left
BeginDelete_upstream(id, name) ==
    /\ pc' = "delete_upstream"
    /\ op' = [NoOp EXCEPT !.kind = "delete", !.id = id, !.name = name]

BeginDelete(id, name) ==
    /\ pc' = "delete_location"
    /\ op' = [NoOp EXCEPT !.kind = "delete", !.id = id, !.name = name]

\* fault variant of delete_ok: the status of a delete is not looked at
delete_ok_any(st) == st # 0

\* fault variant of delete_ok: not-found is an error like any other
delete_ok_strict(st) == is_success(st)

\* a delete step passes on success and on not-found
delete_ok(st) == is_success(st) \/ st = 404

\* delete_config, step 1: DELETE /locations/{name}
DeleteLocationOn(st, d) ==
    /\ pc = "delete_location"
    /\  IF delete_ok(st)
        THEN /\ op' = [op EXCEPT !.attempt = Append(@, Call("DELETE_location", st))]
             /\ pc' = "delete_upstream"
             /\ UNCHANGED <<container_services, msg, finished, outcome>>
        ELSE Retry("DELETE_location", d, DeleteMaxElapsedSecs, "delete_err")
    /\ UNCHANGED <<sync, envVars, started, applied, stopLog>>

\* delete_config, step 2: DELETE /upstreams/{name}
DeleteUpstreamOn(st, d) ==
    /\ pc = "delete_upstream"
    /\  IF delete_ok(st)
        THEN /\ op' = NoOp
             /\ container_services' = AfterReturn(container_services, op, "ok")
             /\ Finish("deleted")
        ELSE Retry("DELETE_upstream", d, DeleteMaxElapsedSecs, "delete_err")
    /\ UNCHANGED <<sync, envVars, started, applied, stopLog>>

\* the four steps as main sees them: any answer, the remote not looked into
ApplyUpstream == (\E st \in Status, d \in Durations : ApplyUpstreamOn(st, d)) /\ UNCHANGED sideVars

ApplyLocation == (\E st \in Status, d \in Durations : ApplyLocationOn(st, d)) /\ UNCHANGED sideVars

DeleteLocation == (\E st \in Status, d \in Durations : DeleteLocationOn(st, d)) /\ UNCHANGED sideVars

DeleteUpstream == (\E st \in Status, d \in Durations : DeleteUpstreamOn(st, d)) /\ UNCHANGED sideVars

\* ------------------------------------------------------------------------
\* The requests of PingapClient and what they leave on the remote
\* ------------------------------------------------------------------------
S_HostOpen == <<"H", "o", "s", "t", "(">>
S_PathPrefixOpen == <<"P", "a", "t", "h", "P", "r", "e", "f", "i", "x", "(">>

\* fault variant of UpstreamPayload: the addresses are added to those present
UpstreamPayload_append(config) ==
    [addrs |-> (IF <<"upstreams", config.name>> \in DOMAIN remote
                THEN remote[<<"upstreams", config.name>>].addrs ELSE <<>>)
               \o config.upstreams]

\* upstream_payload
UpstreamPayload(config) == [addrs |-> config.upstreams]

\* location_payload: host or path cut out of the rule
LocationPayload(config) ==
    [upstream |-> config.name,
     host |-> IF StartsWith(config.rule, S_HostOpen)
              THEN TrimEndMatches(TrimStartStr(config.rule, S_HostOpen), ")")
              ELSE <<>>,
     path |-> IF ~StartsWith(config.rule, S_HostOpen)
                 /\ StartsWith(config.rule, S_PathPrefixOpen)
              THEN TrimEndMatches(TrimStartStr(config.rule, S_PathPrefixOpen), ")")
              ELSE <<>>]

\* fault variant of Resource: every call addresses the location
Resource_location(c, name) == <<"locations", name>>

\* the resource a call addresses: {base_url}/upstreams/{name} or
\* {base_url}/locations/{name}
Resource(c, name) ==
    <<IF c \in {"POST_upstream", "DELETE_upstream"} THEN "upstreams"
      ELSE "locations", name>>

\* the body a call carries
Payload(c, o) ==
    IF c = "POST_upstream" THEN UpstreamPayload(o.config)
    ELSE IF c = "POST_location" THEN LocationPayload(o.config)
    ELSE <<>>

\* the remote's entries once it has answered a call: a successful POST puts
\* the payload, a successful DELETE removes the entry, any other answer
\* leaves the entries as they were
RemoteAfter(r, c, o, st) ==
    IF ~is_success(st) THEN r
    ELSE IF c \in {"POST_upstream", "POST_location"}
         THEN Insert(r, Resource(c, o.name), Payload(c, o))
    ELSE Remove(r, Resource(c, o.name))

\* a call is answered: the remote changes and the answer is noted, with the
\* time a failed attempt cost
Answered(c, st, d) ==
    /\ UNCHANGED <<signalled, compiled, missed>>
    /\ remote' = RemoteAfter(remote, c, op, st)
    /\ trace' = Append(trace, [call |-> c, status |-> st,
                               secs |-> IF \/ outcome' \in {"apply_err", "delete_err"}
                                           \/ op'.kind # "none" /\ op'.attempt = <<>>
                                        THEN d ELSE 0])

\* the configurations parse_pingap_config can produce
Configs ==
    LET both == [id |-> "c1", name |-> <<"/", "a">>,
                 labels |-> (LABEL_ENABLE :> S_true)
                            @@ (LABEL_HTTP_HOST :> <<"h">>)
                            @@ (LABEL_HTTP_PATHS :> <<"/", "x", ",", "/", "y">>),
                 ip_address |-> <<"1">>, ports |-> <<80>>,
                 networks |-> <<[net |-> <<"n">>, ip |-> <<"1">>]>>]
    IN  { r.config :
            r \in { x \in { parse_pingap_config(c) : c \in Infos("c1") \cup {both} } :
                      x.tag = "Some" } }

\* PingapClient::new: nothing called yet
ClientInit ==
    /\ pc = "sync"
    /\ container_services = <<>>
    /\ sync = <<>>
    /\ msg = NoMsg
    /\ op = NoOp
    /\ events = <<>>
    /\ nDelivered = 0
    /\ started = 0
    /\ finished = 0
    /\ applied = [i \in Ids |-> FALSE]
    /\ stopLog = NoStop
    /\ outcome = "none"
    /\ remote = <<>>
    /\ trace = <<>>
    /\ signalled = FALSE
    /\ compiled = NotCompiled
    /\ missed = {}

\* a caller invokes apply_config with a configuration
ClientApply ==
    /\ pc = "sync"
    /\ op = NoOp
    /\ \E config \in Configs : BeginApply("c1", config)
    /\ outcome' = "pending"
    /\ trace' = <<>>
    /\ UNCHANGED <<container_services, sync, msg, envVars,
                   started, finished, applied, stopLog, remote, signalled,
                   compiled, missed>>

\* a caller invokes delete_config with a service name
ClientDelete ==
    /\ pc = "sync"
    /\ op = NoOp
    /\ \E config \in Configs : BeginDelete("c1", config.name)
    /\ outcome' = "pending"
    /\ trace' = <<>>
    /\ UNCHANGED <<container_services, sync, msg, envVars,
                   started, finished, applied, stopLog, remote, signalled,
                   compiled, missed>>

ClientApplyUpstream ==
    \E st \in Status, d \in Durations :
        ApplyUpstreamOn(st, d) /\ Answered("POST_upstream", st, d)

ClientApplyLocation ==
    \E st \in Status, d \in Durations :
        ApplyLocationOn(st, d) /\ Answered("POST_location", st, d)

ClientDeleteLocation ==
    \E st \in Status, d \in Durations :
        DeleteLocationOn(st, d) /\ Answered("DELETE_location", st, d)

ClientDeleteUpstream ==
    \E st \in Status, d \in Durations :
        DeleteUpstreamOn(st, d) /\ Answered("DELETE_upstream", st, d)

\* the steps of a client call
ClientStep ==
    \/ ClientApplyUpstream \/ ClientApplyLocation
    \/ ClientDeleteLocation \/ ClientDeleteUpstream

ClientNext == ClientApply \/ ClientDelete \/ ClientStep

\* PingapClient on its own, called in any order, with the remote in view
ClientSpec == ClientInit /\ [][ClientNext]_vars

\* every call the client makes is answered
ClientFairSpec == ClientSpec /\ WF_vars(ClientStep)

\* the steps of a client call against a remote that nothing else modifies
\* and that answers not-found to a DELETE only for an entry it does not hold
TruthfulStep ==
    \E st \in Status, d \in Durations :
        \/ ApplyUpstreamOn(st, d) /\ Answered("POST_upstream", st, d)
        \/ ApplyLocationOn(st, d) /\ Answered("POST_location", st, d)
        \/ /\ st = 404 => Resource("DELETE_location", op.name) \notin DOMAIN remote
           /\ DeleteLocationOn(st, d)
           /\ Answered("DELETE_location", st, d)
        \/ /\ st = 404 => Resource("DELETE_upstream", op.name) \notin DOMAIN remote
           /\ DeleteUpstreamOn(st, d)
           /\ Answered("DELETE_upstream", st, d)

TruthfulNext == ClientApply \/ ClientDelete \/ TruthfulStep

\* PingapClient as the only writer of a remote that answers truthfully
TruthfulSpec == ClientInit /\ [][TruthfulNext]_vars

\* ------------------------------------------------------------------------
\* main (main.rs)
\* ------------------------------------------------------------------------
\* fault variant of ListFail: a failed snapshot counts as an empty one
ListFail_continue ==
    /\ pc = "list"
    /\ pc' = "sync"
    /\ outcome' = "list_failed"
    /\ UNCHANGED <<container_services, sync, msg, op, envVars,
                   started, finished, applied, stopLog>>
    /\ UNCHANGED sideVars

\* get_running_containers().await? fails: main returns the error
ListFail ==
    /\ pc = "list"
    /\ pc' = "failed"
    /\ outcome' = "list_failed"
    /\ UNCHANGED <<container_services, sync, msg, op, envVars,
                   started, finished, applied, stopLog>>
    /\ UNCHANGED sideVars

ListOk ==
    /\ pc = "list"
    /\ \E cs \in Snapshots : sync' = cs
    /\ pc' = "sync"
    /\ UNCHANGED <<container_services, msg, op, envVars, obsVars>>
    /\ UNCHANGED sideVars

\* the match on parse_pingap_config, shared by initial synchronization and
\* the start branch
CompileAndApply(c) ==
    LET r == parse_pingap_config(c) IN
    IF r.tag = "Some"
    THEN /\ BeginApply(c.id, r.config)
         /\ outcome' = "pending"
         /\ UNCHANGED <<msg, finished>>
    ELSE /\ Finish(IF r.tag = "None" THEN "disabled" ELSE "compile_err")
         /\ UNCHANGED op

\* one iteration of `for container in containers`
SyncNext ==
    /\ pc = "sync"
    /\ sync # <<>>
    /\ sync' = Tail(sync)
    /\ CompileAndApply(Head(sync))
    /\ UNCHANGED <<container_services, envVars, started, applied, stopLog>>
    /\ UNCHANGED sideVars

\* the snapshot is exhausted: subscribe_to_events and enter the loop
SyncDone ==
    /\ pc = "sync"
    /\ sync = <<>>
    /\ pc' = "select"
    /\ UNCHANGED <<container_services, sync, msg, op, envVars, obsVars>>
    /\ UNCHANGED sideVars

\* fault variant of Ready: the next event is taken while a handler is running
Ready_spawn == pc \notin {"list", "sync", "failed", "done"} /\ events # <<>>

\* events.next() is awaited only between handlers
Ready == pc = "select" /\ events # <<>>

\* what the stream still holds once events.next() has yielded its item
Rest(q) == Tail(q)

\* fault variant of HandleStart: the entry of the identity is dropped first
HandleStart_forget ==
    /\ Ready
    /\ Head(events).kind = "msg"
    /\ Head(events).action = "start"
    /\ msg' = Head(events)
    /\ events' = Rest(events)
    /\ pc' = "inspect"
    /\ started' = started + 1
    /\ outcome' = "pending"
    /\ container_services' = Remove(container_services, Head(events).id)
    /\ UNCHANGED <<sync, op, nDelivered, finished, applied, stopLog>>
    /\ UNCHANGED sideVars

\* "start": inspect the container
HandleStart ==
    /\ Ready
    /\ Head(events).kind = "msg"
    /\ Head(events).action = "start"
    /\ msg' = Head(events)
    /\ events' = Rest(events)
    /\ pc' = "inspect"
    /\ started' = started + 1
    /\ outcome' = "pending"
    /\ UNCHANGED <<container_services, sync, op, nDelivered,
                   finished, applied, stopLog>>
    /\ UNCHANGED sideVars

\* inspect_container returned
InspectReply ==
    /\ pc = "inspect"
    /\ \/ /\ Finish("inspect_fail")
          /\ UNCHANGED op
       \/ \E c \in Infos(msg.id) : CompileAndApply(c)
    /\ UNCHANGED <<container_services, sync, envVars, started, applied, stopLog>>
    /\ UNCHANGED sideVars

\* fault variant of FallbackName: the name attribute alone is looked at
FallbackName_attr(attrs) ==
    TrimStartMatches(IF Get(attrs, "name") # None
                     THEN Get(attrs, "name") ELSE <<>>, "/")

\* the attribute fallback of the die/stop branch
FallbackName(attrs) ==
    IF Get(attrs, LABEL_SERVICE_NAME) # None
    THEN Get(attrs, LABEL_SERVICE_NAME)
    ELSE TrimStartMatches(IF Get(attrs, "name") # None
                          THEN Get(attrs, "name") ELSE <<>>, "/")

\* fault variant of FallbackEnabled: the label being present is enough
FallbackEnabled_present(attrs) == Get(attrs, LABEL_ENABLE) # None

FallbackEnabled(attrs) == Get(attrs, LABEL_ENABLE) = S_true

\* fault variant of ServiceNameFor: the attributes are preferred to the state
ServiceNameFor_attrs(m, e) ==
    IF FallbackEnabled(e.attrs) THEN FallbackName(e.attrs)
    ELSE IF e.id \in DOMAIN m THEN m[e.id]
    ELSE None

\* service_name of the die/stop branch: the tracked name, else the fallback
ServiceNameFor(m, e) ==
    IF e.id \in DOMAIN m THEN m[e.id]
    ELSE IF FallbackEnabled(e.attrs) THEN FallbackName(e.attrs)
    ELSE None

\* fault variant of AfterLookup: the name is read with get, not remove
AfterLookup_get(m, id) == m

\* container_services after the die/stop branch has looked the identity up
AfterLookup(m, id) == Remove(m, id)

\* per container stop the runtime reported: whether the identity was tracked
\* when its first event was handled, the service name resolved then, and how
\* often delete_config has been invoked for that name
NoteStop(e, wasTracked, name) ==
    IF e.stop # stopLog.stop
    THEN [stop |-> e.stop, id |-> e.id, tracked |-> wasTracked, name |-> name,
          deletes |-> IF name # None THEN 1 ELSE 0, handled |-> 1]
    ELSE [stopLog EXCEPT !.deletes = IF name = stopLog.name /\ name # None
                                     THEN @ + 1 ELSE @,
                         !.handled = @ + 1]

\* "die" | "stop"
HandleStop ==
    /\ Ready
    /\ Head(events).kind = "msg"
    /\ Head(events).action \in {"die", "stop"}
    /\ LET e == Head(events)
           name == ServiceNameFor(container_services, e)
       IN  /\ events' = Rest(events)
           /\ container_services' = AfterLookup(container_services, e.id)
           /\ applied' = [applied EXCEPT ![e.id] = FALSE]
           /\ started' = started + 1
           /\ stopLog' = NoteStop(e, e.id \in DOMAIN container_services, name)
           /\ IF name # None
              THEN /\ BeginDelete(e.id, name)
                   /\ msg' = e
                   /\ outcome' = "pending"
                   /\ UNCHANGED finished
              ELSE /\ pc' = "select"
                   /\ msg' = NoMsg
                   /\ finished' = finished + 1
                   /\ outcome' = "ignored"
                   /\ UNCHANGED op
    /\ UNCHANGED <<sync, nDelivered>>
    /\ UNCHANGED sideVars

\* fault variant of HandleOther: an unknown action refreshes the container
HandleOther_refresh ==
    /\ Ready
    /\ Head(events).kind = "msg"
    /\ Head(events).action \notin {"start", "die", "stop"}
    /\ msg' = Head(events)
    /\ events' = Rest(events)
    /\ pc' = "inspect"
    /\ started' = started + 1
    /\ outcome' = "pending"
    /\ UNCHANGED <<container_services, sync, op, nDelivered,
                   finished, applied, stopLog>>
    /\ UNCHANGED sideVars

\* any other action: the arm that does nothing
HandleOther ==
    /\ Ready
    /\ Head(events).kind = "msg"
    /\ Head(events).action \notin {"start", "die", "stop"}
    /\ events' = Rest(events)
    /\ started' = started + 1
    /\ finished' = finished + 1
    /\ outcome' = "ignored"
    /\ UNCHANGED <<progVars, nDelivered, applied, stopLog>>
    /\ UNCHANGED sideVars

\* fault variant of HandleStreamError: a stream error ends the loop
HandleStreamError_break ==
    /\ Ready
    /\ Head(events).kind = "err"
    /\ events' = <<>>
    /\ pc' = "done"
    /\ started' = started + 1
    /\ finished' = finished + 1
    /\ outcome' = "stream_error"
    /\ UNCHANGED <<container_services, sync, msg, op, nDelivered,
                   applied, stopLog>>
    /\ UNCHANGED sideVars

\* Some(Err(e)): logged
HandleStreamError ==
    /\ Ready
    /\ Head(events).kind = "err"
    /\ events' = Rest(events)
    /\ started' = started + 1
    /\ finished' = finished + 1
    /\ outcome' = "stream_error"
    /\ UNCHANGED <<progVars, nDelivered, applied, stopLog>>
    /\ UNCHANGED sideVars

\* None: the stream has terminated, which events.next() reports once the
\* stream holds no more items; main returns and the stream is dropped
HandleStreamEnd ==
    /\ pc = "select"
    /\ events = <<>>
    /\ pc' = "done"
    /\ outcome' = "stream_ended"
    /\ UNCHANGED <<container_services, sync, msg, op, envVars,
                   started, finished, applied, stopLog>>
    /\ UNCHANGED sideVars

\* fault variant of CtrlC: the signal cancels whatever main is waiting for
CtrlC_anytime ==
    /\ (pc = "select" \/ msg # NoMsg)
    /\ pc' = "done"
    /\ events' = <<>>
    /\ msg' = NoMsg
    /\ op' = NoOp
    /\ finished' = started
    /\ outcome' = "shutdown"
    /\ UNCHANGED <<container_services, sync, nDelivered,
                   started, applied, stopLog>>
    /\ UNCHANGED sideVars

\* the ctrl_c branch of the select
CtrlC ==
    /\ pc = "select"
    /\ pc' = "done"
    /\ events' = <<>>
    /\ outcome' = "shutdown"
    /\ UNCHANGED <<container_services, sync, msg, op, nDelivered,
                   started, finished, applied, stopLog>>
    /\ UNCHANGED sideVars

\* ------------------------------------------------------------------------
\* The event stream (docker.rs, subscribe_to_events)
\* ------------------------------------------------------------------------
\* the stream exists from subscribe_to_events until main returns: main is at
\* the select or in the handler of an event
Subscribed == pc = "select" \/ msg # NoMsg

CanDeliver(n) == Subscribed /\ nDelivered + n <= MaxEvents

Event(a, id, attrs, seq, stop) ==
    [kind |-> "msg", action |-> a, id |-> id, attrs |-> attrs,
     seq |-> seq, stop |-> stop]

\* a container started
RuntimeStart ==
    /\ CanDeliver(1)
    /\ \E id \in Ids :
        events' = Append(events, Event("start", id, <<>>, nDelivered + 1, 0))
    /\ nDelivered' = nDelivered + 1
    /\ UNCHANGED <<progVars, obsVars>>
    /\ UNCHANGED sideVars

\* a container exited or was killed: die alone
RuntimeDie ==
    /\ CanDeliver(1)
    /\ \E id \in Ids, attrs \in EventAttrs :
        events' = Append(events,
                         Event("die", id, attrs, nDelivered + 1, nDelivered + 1))
    /\ nDelivered' = nDelivered + 1
    /\ UNCHANGED <<progVars, obsVars>>
    /\ UNCHANGED sideVars

\* a container was stopped: die, then stop, with the same attributes
RuntimeStop ==
    /\ CanDeliver(2)
    /\ \E id \in Ids, attrs \in EventAttrs :
        events' = events \o
            <<Event("die", id, attrs, nDelivered + 1, nDelivered + 1),
              Event("stop", id, attrs, nDelivered + 2, nDelivered + 1)>>
    /\ nDelivered' = nDelivered + 2
    /\ UNCHANGED <<progVars, obsVars>>
    /\ UNCHANGED sideVars

\* an event message that carries no action (action is an Option)
RuntimeOther ==
    /\ CanDeliver(1)
    /\ events' = Append(events, Event("none", "c1", <<>>, nDelivered + 1, 0))
    /\ nDelivered' = nDelivered + 1
    /\ UNCHANGED <<progVars, obsVars>>
    /\ UNCHANGED sideVars

\* the stream yields an error item
StreamError ==
    /\ CanDeliver(1)
    /\ events' = Append(events, [NoMsg EXCEPT !.kind = "err",
                                              !.seq = nDelivered + 1])
    /\ nDelivered' = nDelivered + 1
    /\ UNCHANGED <<progVars, obsVars>>
    /\ UNCHANGED sideVars

\* initial synchronization
Startup == ListFail \/ ListOk \/ SyncNext \/ SyncDone

\* the steps of the event loop and of the calls made from it and from startup
LoopStep ==
    \/ HandleStart \/ InspectReply \/ HandleStop \/ HandleOther
    \/ HandleStreamError
    \/ ApplyUpstream \/ ApplyLocation \/ DeleteLocation \/ DeleteUpstream

Environment ==
    \/ RuntimeStart \/ RuntimeDie \/ RuntimeStop \/ RuntimeOther
    \/ StreamError

Next == Startup \/ LoopStep \/ HandleStreamEnd \/ CtrlC \/ Environment

Spec == Init /\ [][Next]_vars

\* the die/stop branch meets an identity it does not track: the service name
\* comes from the attributes of the event, which are the container's labels
\* and its name, the name with or without the slash of the display name
ResolveFromAttrs ==
    /\ pc = "compiled"
    /\ \E nm \in {Head(sync).name, AttrsOf(Head(sync))["name"]} :
        LET e == Event("stop", Head(sync).id,
                       ("name" :> nm) @@ Head(sync).labels, 1, 1)
        IN  stopLog' = NoteStop(e, e.id \in DOMAIN container_services,
                                ServiceNameFor(container_services, e))
    /\ pc' = "resolved"
    /\ UNCHANGED <<container_services, sync, msg, op, envVars,
                   started, finished, applied, outcome>>
    /\ UNCHANGED sideVars

\* the compiler and the fallback of the die/stop branch on one container
FallbackSpec == CompileInit /\ [][Compile \/ ResolveFromAttrs]_vars

\* a call main's client makes is answered with success at once, the remote
\* in view
RemoteOk ==
    /\ \/ /\ ApplyUpstreamOn(200, RetryStepSecs)
          /\ remote' = RemoteAfter(remote, "POST_upstream", op, 200)
       \/ /\ ApplyLocationOn(200, RetryStepSecs)
          /\ remote' = RemoteAfter(remote, "POST_location", op, 200)
       \/ /\ DeleteLocationOn(200, RetryStepSecs)
          /\ remote' = RemoteAfter(remote, "DELETE_location", op, 200)
       \/ /\ DeleteUpstreamOn(200, RetryStepSecs)
          /\ remote' = RemoteAfter(remote, "DELETE_upstream", op, 200)
    /\ UNCHANGED <<trace, signalled, compiled, missed>>

ReliableNext ==
    \/ Startup
    \/ HandleStart \/ InspectReply \/ HandleStop \/ HandleOther
    \/ HandleStreamError \/ RemoteOk
    \/ HandleStreamEnd \/ CtrlC \/ Environment

\* main against a remote whose calls always succeed
ReliableSpec == Init /\ [][ReliableNext]_vars

\* a shutdown signal comes while the handler of an event runs: the select of
\* this iteration is over and its ctrl_c() future dropped, the next
\* iteration makes a new one, which sees only signals that come after it
SignalLost ==
    /\ msg # NoMsg
    /\ ~signalled
    /\ signalled' = TRUE
    /\ UNCHANGED <<progVars, envVars, obsVars, remoteVars, compiled, missed>>

\* a shutdown signal comes before the loop: ctrl_c() has not been called
\* yet, nothing listens, the process ends
SignalKills ==
    /\ msg = NoMsg
    /\ pc \notin {"select", "failed", "done", "killed"}
    /\ pc' = "killed"
    /\ outcome' = "killed"
    /\ UNCHANGED <<container_services, sync, msg, op, envVars,
                   started, finished, applied, stopLog>>
    /\ UNCHANGED sideVars

SignalNext == Next \/ SignalLost \/ SignalKills

\* main with the shutdown signal coming at any moment
SignalSpec == Init /\ [][SignalNext]_vars

\* a container that initial synchronization has recorded stops while main is
\* still between the snapshot query and subscribe_to_events: the stream is
\* opened later and without `since`, so it never holds the die and stop
\* events of this stop
StopBeforeSubscribe ==
    /\ pc = "sync"
    /\ \E id \in DOMAIN container_services \ missed : missed' = missed \cup {id}
    /\ UNCHANGED <<progVars, envVars, obsVars, remoteVars, signalled, compiled>>

RaceNext == Next \/ StopBeforeSubscribe

\* main with containers that may stop during initial synchronization, under
\* a scheduler that runs initial synchronization and the event loop whenever
\* they can take a step
RaceFairSpec ==
    Init /\ [][RaceNext]_vars /\ WF_vars(Startup) /\ WF_vars(LoopStep)

\* the event loop under a scheduler that runs it whenever it can take a step
\* and a remote that answers every call; nothing obliges the stream to end
\* or a shutdown signal to come
FairSpec == Spec /\ WF_vars(LoopStep)

\* ------------------------------------------------------------------------
\* Properties
\* ------------------------------------------------------------------------
Entry(m, id) == IF id \in DOMAIN m THEN m[id] ELSE None

AtBoundary == pc \in {"select", "done"}

Failures == {"inspect_fail", "compile_err", "apply_err", "delete_err"}

\* a step of main that ends the processing of a container or event in failure
FailStep == outcome' \in Failures /\ (outcome = "pending" \/ sync' # sync)

\* the identity main is processing
CurId == IF pc = "sync" THEN Head(sync).id
         ELSE IF pc = "inspect" THEN msg.id
         ELSE op.id

C2_DeleteUsesTrackedName ==
    [][(/\ Ready
        /\ Head(events).kind = "msg"
        /\ Head(events).action \in {"die", "stop"}
        /\ Head(events).id \in DOMAIN container_services
        /\ started' = started + 1)
       => (/\ pc' = "delete_location"
           /\ op'.kind = "delete"
           /\ op'.attempt = <<>>
           /\ op'.name = container_services[Head(events).id])]_vars

\* delete_config runs for a tracked identity whose event attributes are not
\* enabled or derive another name
C2_Witness ==
    /\ pc = "delete_location"
    /\ stopLog.stop = msg.stop
    /\ stopLog.tracked
    /\ stopLog.handled = 1
    /\ op.name = stopLog.name
    /\ \/ ~FallbackEnabled(msg.attrs)
       \/ FallbackName(msg.attrs) # op.name

\* C3: an entry of container_services is created or changed only by the step
\* in which apply_config for that identity returns success, after the
\* upstream upsert of its last attempt succeeded; a step that ends in compile
\* none, compile error, inspect failure or a final apply error leaves the
\* map as it was
C3_InsertOnlyAfterApply ==
    [][/\ \A id \in Ids :
            (/\ id \in DOMAIN container_services'
             /\ Entry(container_services', id) # Entry(container_services, id))
            => (/\ pc = "apply_location"
                /\ op.kind = "apply"
                /\ op.id = id
                /\ op.attempt = <<Call("POST_upstream", 200)>>
                /\ outcome' = "applied"
                /\ container_services'[id] = op.name)
       /\ (outcome' \in {"disabled", "compile_err", "inspect_fail", "apply_err"}
           /\ (outcome = "pending" \/ sync' # sync))
          => container_services' = container_services]_vars

\* a start event's apply_config succeeded and an identity is recorded
C3_Witness ==
    /\ pc = "select"
    /\ finished >= 1
    /\ outcome = "applied"
    /\ \E id \in Ids : id \in DOMAIN container_services /\ applied[id]

\* C4: when the die/stop event of a tracked identity led to delete_config,
\* the identity is out of container_services afterwards only if delete_config
\* returned success; after a final error its entry is still there
C4_EntryKeptOnDeleteError ==
    (/\ pc = "select"
     /\ stopLog.tracked
     /\ stopLog.handled = 1
     /\ outcome \in {"deleted", "delete_err"})
    => (stopLog.id \in DOMAIN container_services <=> outcome = "delete_err")

\* C5: for a tracked container whose stop arrives as die then stop,
\* delete_config is invoked exactly once for its service
C5_DeleteExactlyOnce ==
    (/\ AtBoundary
     /\ stopLog.tracked
     /\ stopLog.handled = 2)
    => stopLog.deletes = 1

C7_OneAtATimeInOrder ==
    /\ finished <= started
    /\ started <= finished + 1
    /\ (started = finished + 1) <=> (msg # NoMsg)
    /\ msg # NoMsg => msg.seq = started
    /\ \A i \in 1..Len(events) : events[i].seq = started + i

\* the second event's handler is in a remote call after the first completed
C7_Witness ==
    /\ msg # NoMsg
    /\ msg.seq = 2
    /\ finished = 1
    /\ op.kind # "none"

\* a handler has retried at least once and has not returned
InRetry == msg # NoMsg /\ op.kind # "none" /\ op.failed # ""

\* C8: an item the stream holds while a handler is in a retry sequence is
\* eventually taken by the loop, unless the loop ends first (an item that
\* waits behind a running handler is at position 2 or later)
C8_QueuedEventHandled ==
    \A k \in 2..MaxEvents :
        (InRetry /\ \E i \in 1..Len(events) : events[i].seq = k)
            ~> (started >= k \/ pc = "done")

\* an event waits while the running handler is retrying
C8_Witness == InRetry /\ events # <<>>

\* C9: within an attempt of apply_config the upstream upsert comes first, the
\* location upsert is issued only after the upstream upsert of that attempt
\* succeeded, a retry starts again at the upstream upsert, and apply_config
\* returns success only from the location upsert of such an attempt
C9_ApplyAttemptOrder ==
    /\ [](op.kind = "apply" =>
            /\ pc \in {"apply_upstream", "apply_location"}
            /\ pc = "apply_upstream" => op.attempt = <<>>
            /\ pc = "apply_location" =>
                  op.attempt = <<Call("POST_upstream", 200)>>)
    /\ [][/\ (op.kind = "apply" /\ op'.kind = "apply" /\ op'.elapsed > op.elapsed)
              => (pc' = "apply_upstream" /\ op'.attempt = <<>>)
          /\ (outcome = "pending" /\ outcome' = "applied")
              => (/\ pc = "apply_location"
                  /\ op.attempt = <<Call("POST_upstream", 200)>>)]_vars

\* the location upsert failed and the next attempt is at its upstream upsert
C9_Witness ==
    /\ pc = "apply_upstream"
    /\ op.kind = "apply"
    /\ op.failed = "POST_location"

\* C10: within an attempt of delete_config the location delete comes first,
\* the upstream delete is issued only after the location delete of that
\* attempt returned success or not-found, and a retry starts again at the
\* location delete
C10_DeleteAttemptOrder ==
    op.kind = "delete" =>
        /\ pc \in {"delete_location", "delete_upstream"}
        /\ pc = "delete_location" => op.attempt = <<>>
        /\ pc = "delete_upstream" =>
              /\ Len(op.attempt) = 1
              /\ op.attempt[1].call = "DELETE_location"
              /\ op.attempt[1].status \in (200..299) \cup {404}

\* the upstream delete failed and the next attempt is at its location delete
C10_Witness ==
    /\ pc = "delete_location"
    /\ op.kind = "delete"
    /\ op.failed = "DELETE_upstream"

\* the answer the remote gave last
LastAnswer(t) == t[Len(t)]

\* a step in which the remote answered a call of the running client call
AnswerStep == op.kind # "none" /\ Len(trace') = Len(trace) + 1

\* the time the failed attempts noted in t have cost
RECURSIVE SumSecs(_)
SumSecs(t) == IF t = <<>> THEN 0 ELSE t[1].secs + SumSecs(Tail(t))

\* C11: delete_config takes a not-found answer to either step as that step's
\* success: after 404 on the location delete it goes on to the upstream
\* delete without a retry, after 404 on the upstream delete it returns
\* success, and it returns an error only on an answer that is neither
\* success nor not-found, once the failed attempts have used up the budget
C11_NotFoundIsSuccess ==
    [][(AnswerStep /\ op.kind = "delete") =>
        LET a == LastAnswer(trace') IN
        /\ (a.call = "DELETE_location" /\ a.status = 404)
              => (/\ pc' = "delete_upstream"
                  /\ op'.elapsed = op.elapsed
                  /\ op'.failed = op.failed)
        /\ (a.call = "DELETE_upstream" /\ a.status = 404)
              => outcome' = "deleted"
        /\ outcome' = "delete_err"
              => (/\ a.status \notin (200..299) \cup {404}
                  /\ SumSecs(trace') > DeleteMaxElapsedSecs)]_vars

\* delete_config returned success on not-found answers to both steps
C11_Witness ==
    /\ outcome = "deleted"
    /\ Len(trace) = 2
    /\ trace[1].call = "DELETE_location" /\ trace[1].status = 404
    /\ trace[2].call = "DELETE_upstream" /\ trace[2].status = 404

AllServerErrors(t) == \A i \in 1..Len(t) : t[i].status = 500

Budget(kind) ==
    IF kind = "apply" THEN ApplyMaxElapsedSecs ELSE DeleteMaxElapsedSecs

\* C12 as stated: against a remote that answers every call with a server
\* error, apply_config and delete_config never return their error after a
\* single attempt
C12_NeverFailsOnFirstAttempt ==
    [][(/\ AnswerStep
        /\ AllServerErrors(trace')
        /\ outcome' \in {"apply_err", "delete_err"})
       => Len(trace') >= 2]_vars

\* C12, amended: against a remote that answers every call with a server
\* error, a failed attempt is followed by another as long as the time used
\* (attempts and pauses) is within the budget, 60 s for apply and 30 s for
\* delete, the final error is returned by the first failure past the budget
\* (which is the first attempt when that attempt alone outlasts the budget),
\* and every call terminates
C12_FailsOnlyPastBudget ==
    /\ [][(AnswerStep /\ AllServerErrors(trace')) =>
            /\ SumSecs(trace') <= Budget(op.kind)
                  => (/\ op'.kind = op.kind
                      /\ op'.attempt = <<>>
                      /\ pc' = (IF op.kind = "apply" THEN "apply_upstream"
                                ELSE "delete_location")
                      /\ outcome' = "pending")
            /\ SumSecs(trace') > Budget(op.kind)
                  => (/\ op' = NoOp
                      /\ outcome' = (IF op.kind = "apply" THEN "apply_err"
                                     ELSE "delete_err"))]_vars
    /\ \A k \in {"apply", "delete"} : (op.kind = k) ~> (op.kind = "none")

\* apply_config retried and then returned its final error, every answer a
\* server error
C12_Witness ==
    /\ outcome = "apply_err"
    /\ Len(trace) >= 2
    /\ AllServerErrors(trace)
    /\ SumSecs(trace) > ApplyMaxElapsedSecs

\* the remote's entries for the service are those an apply of config puts
Holds(r, config) ==
    /\ Resource("POST_upstream", config.name) \in DOMAIN r
    /\ r[Resource("POST_upstream", config.name)] = UpstreamPayload(config)
    /\ Resource("POST_location", config.name) \in DOMAIN r
    /\ r[Resource("POST_location", config.name)] = LocationPayload(config)

\* C13: a successful apply_config leaves the remote holding the upstream and
\* location entries of its configuration; when the remote already holds them
\* (the configuration was applied before), the upserts of a further apply
\* change nothing on the remote, and that apply returns success as soon as
\* both its upserts succeed
C13_ApplyIdempotent ==
    [][(AnswerStep /\ op.kind = "apply") =>
        LET a == LastAnswer(trace') IN
        /\ outcome' = "applied" => Holds(remote', op.config)
        /\ (Holds(remote, op.config) /\ is_success(a.status))
              => remote' = remote
        /\ (a.call = "POST_location" /\ is_success(a.status))
              => outcome' = "applied"]_vars

\* a further apply_config of a configuration the remote already holds has
\* had its upstream upsert answered with success
C13_Witness ==
    /\ pc = "apply_location"
    /\ op.kind = "apply"
    /\ Len(trace) = 1
    /\ Holds(remote, op.config)

\* the loop takes an item that is a stream error or an event of another
\* action than start, die, stop
TakesOther ==
    /\ Ready
    /\ started' = started + 1
    /\ \/ Head(events).kind = "err"
       \/ Head(events).action \notin {"start", "die", "stop"}

\* C14: taking a stream error, or an event whose action is not start, die or
\* stop, starts no inspect, apply or delete call, leaves container_services
\* as it was, and leaves the loop at its await point with the later items
\* still to come
C14_OtherItemsChangeNothing ==
    [][TakesOther =>
        /\ pc' = "select"
        /\ op' = NoOp
        /\ msg' = NoMsg
        /\ container_services' = container_services
        /\ finished' = finished + 1
        /\ events' = Tail(events)]_vars

\* a stream error was taken while a container is tracked, and the loop awaits
C14_Witness ==
    /\ pc = "select"
    /\ outcome = "stream_error"
    /\ finished = started
    /\ DOMAIN container_services # {}

\* C15: the loop is left only from its await point, by the stream ending or
\* by the shutdown signal, never by an item or a failure, and once it is
\* left no inspect, apply or delete call is in progress or begun
C15_LoopEndsOnlyOnEndOrSignal ==
    /\ [][(Subscribed /\ ~Subscribed') =>
            /\ pc = "select"
            /\ pc' = "done"
            /\ outcome' \in {"stream_ended", "shutdown"}
            /\ started' = started
            /\ op' = NoOp]_vars
    /\ [](pc = "done" => (op = NoOp /\ msg = NoMsg /\ finished = started))
    /\ [][pc = "done" => pc' = "done" /\ op' = NoOp /\ started' = started]_vars

\* the stream ended after an event had been handled, and main has returned
C15_Witness ==
    /\ pc = "done"
    /\ outcome = "stream_ended"
    /\ started >= 1

\* C18: when the snapshot query fails main returns its error at once: no
\* apply_config was called, nothing is tracked, the events were never
\* subscribed to and the loop never entered; and main fails in no other way
C18_SnapshotFailureAborts ==
    /\ (outcome = "list_failed" \/ pc = "failed") =>
          /\ pc = "failed"
          /\ outcome = "list_failed"
          /\ op = NoOp
          /\ container_services = <<>>
          /\ \A id \in Ids : ~applied[id]
          /\ events = <<>>
          /\ nDelivered = 0
          /\ started = 0
    /\ pc = "failed" => ~Subscribed

\* the snapshot query failed
C18_Witness == pc = "failed" /\ outcome = "list_failed"

\* the loop takes a die or stop event of an identity that is not tracked
TakesUntrackedStop ==
    /\ Ready
    /\ started' = started + 1
    /\ Head(events).kind = "msg"
    /\ Head(events).action \in {"die", "stop"}
    /\ Head(events).id \notin DOMAIN container_services

\* C19: for a die or stop event of an identity that is not tracked,
\* delete_config is invoked exactly when the event's attributes hold
\* pingap.enable with the value true; otherwise no call is made and the
\* loop is back at its await point
C19_UntrackedStopNeedsEnable ==
    [][TakesUntrackedStop =>
        LET attrs == Head(events).attrs
            on == /\ "pingap.enable" \in DOMAIN attrs
                  /\ attrs["pingap.enable"] = <<"t", "r", "u", "e">>
        IN  /\ on => (pc' = "delete_location" /\ op'.kind = "delete")
            /\ ~on => (pc' = "select" /\ op' = NoOp /\ msg' = NoMsg)]_vars

\* an untracked identity's die event with pingap.enable other than true was
\* taken and nothing was called
C19_Witness ==
    /\ pc = "select"
    /\ outcome = "ignored"
    /\ stopLog.handled = 1
    /\ ~stopLog.tracked
    /\ stopLog.name = None

\* C16: once a shutdown signal has come while a handler was running, the
\* loop takes no further event: it ends at the next boundary
C16_SignalEndsLoopAtBoundary ==
    [][signalled => started' = started]_vars

\* C17: while the handler of an event runs, no step ends the loop or the
\* process, a shutdown signal that comes leaves main, the stream and the
\* remote calls as they are, and main returns with no call in progress
C17_SignalNeverInterruptsHandler ==
    /\ [][msg # NoMsg =>
            /\ pc' \notin {"done", "killed"}
            /\ signalled' # signalled
                  => UNCHANGED <<progVars, envVars, obsVars>>]_vars
    /\ [](pc = "done" => (op = NoOp /\ msg = NoMsg /\ finished = started))

\* a signal came during an apply whose upstream upsert is done and whose
\* location upsert is still to come
C17_Witness ==
    /\ signalled
    /\ msg # NoMsg
    /\ pc = "apply_location"

\* the labels do not hold pingap.enable with exactly the value true
NotEnabled(c) ==
    \/ "pingap.enable" \notin DOMAIN c.labels
    \/ c.labels["pingap.enable"] # <<"t", "r", "u", "e">>

\* C20: for a snapshot whose labels lack pingap.enable or give it another
\* value than true, parse_pingap_config returns Ok(None), whatever the other
\* labels, networks, IP and ports are
C20_DisabledCompilesToNone ==
    (pc = "compiled" /\ NotEnabled(Head(sync))) => compiled = [tag |-> "None"]

\* Ok(None) for a snapshot with pingap.enable=True, no network, no IP, no
\* port and no rule
C20_Witness ==
    /\ pc = "compiled"
    /\ compiled.tag = "None"
    /\ "pingap.enable" \in DOMAIN Head(sync).labels
    /\ Head(sync).labels["pingap.enable"] = <<"T", "r", "u", "e">>
    /\ Head(sync).networks = <<>>
    /\ Head(sync).ports = <<>>
    /\ DOMAIN Head(sync).labels = {"pingap.enable"}

\* ------------------------------------------------------------------------
\* Properties of the label compiler
\* ------------------------------------------------------------------------
\* the snapshot parse_pingap_config was called on
Snap == Head(sync)

\* parse_pingap_config has returned for an enabled snapshot
CompiledEnabled == pc = "compiled" /\ ~NotEnabled(Snap)

Has(k) == k \in DOMAIN Snap.labels

HasRuleLabel ==
    Has("pingap.http.rule") \/ Has("pingap.http.host") \/ Has("pingap.http.paths")

\* C21: for an enabled container carrying pingap.service.address (and a
\* routing label), parse_pingap_config succeeds with that label's value as
\* the only upstream entry, whatever the IP, network and port inputs are
C21_AddressOverrideAlwaysWins ==
    (CompiledEnabled /\ Has("pingap.service.address") /\ HasRuleLabel)
        => /\ compiled.tag = "Some"
           /\ compiled.config.upstreams = <<Snap.labels["pingap.service.address"]>>

\* the entries of the pingap.http.paths values used, trimmed
PathsOf(v) ==
    IF v = <<"/", "x", ",", " ", "/", "y">>
    THEN << <<"/", "x">>, <<"/", "y">> >>
    ELSE << <<"/", "x">> >>

PathPred(p) ==
    <<"P", "a", "t", "h", "P", "r", "e", "f", "i", "x", "(", "bq">> \o p
        \o <<"bq", ")">>

HostPred(h) == <<"H", "o", "s", "t", "(", "bq">> \o h \o <<"bq", ")">>

\* the PathPrefix predicates of a paths value joined by ||
PathPreds(v) ==
    IF Len(PathsOf(v)) = 1 THEN PathPred(PathsOf(v)[1])
    ELSE PathPred(PathsOf(v)[1]) \o <<" ", "|", "|", " ">>
            \o PathPred(PathsOf(v)[2])

ErrNames(k) ==
    /\ compiled.tag = "Err"
    /\ \E i \in 1..Len(compiled.err.args) : compiled.err.args[i] = [label |-> k]

\* C22: the rule of a compiled configuration is the pingap.http.rule value
\* verbatim when that label is present; otherwise Host(`h`) && (PathPrefix(`p1`)
\* || ..) for host and paths, Host(`h`) for host alone, the PathPrefix
\* predicates joined by || for paths alone, each path trimmed; with none of
\* the three labels compile fails, and where IP and port resolve the error
\* lists the three labels
C22_RuleResolution ==
    CompiledEnabled =>
      LET l == Snap.labels
          rule == compiled.config.rule
      IN  /\ (compiled.tag = "Some" /\ Has("pingap.http.rule"))
                => rule = l["pingap.http.rule"]
          /\ (compiled.tag = "Some" /\ ~Has("pingap.http.rule")
                /\ Has("pingap.http.host") /\ Has("pingap.http.paths"))
                => rule = HostPred(l["pingap.http.host"])
                            \o <<" ", "&", "&", " ", "(">>
                            \o PathPreds(l["pingap.http.paths"]) \o <<")">>
          /\ (compiled.tag = "Some" /\ ~Has("pingap.http.rule")
                /\ Has("pingap.http.host") /\ ~Has("pingap.http.paths"))
                => rule = HostPred(l["pingap.http.host"])
          /\ (compiled.tag = "Some" /\ ~Has("pingap.http.rule")
                /\ ~Has("pingap.http.host") /\ Has("pingap.http.paths"))
                => rule = PathPreds(l["pingap.http.paths"])
          /\ ~HasRuleLabel => compiled.tag = "Err"
          /\ (~HasRuleLabel /\ ~Has("pingap.docker.network")
                /\ Snap.networks # <<>> /\ Snap.ports # <<>>
                /\ ~Has("pingap.service.port"))
                => /\ ErrNames("pingap.http.rule")
                   /\ ErrNames("pingap.http.host")
                   /\ ErrNames("pingap.http.paths")

\* host h and paths "/x, /y" are compiled to Host(`h`) && (PathPrefix(`/x`)
\* || PathPrefix(`/y`))
C22_Witness ==
    /\ CompiledEnabled
    /\ compiled.tag = "Some"
    /\ ~Has("pingap.http.rule")
    /\ Has("pingap.http.host")
    /\ Has("pingap.http.paths")
    /\ Len(PathsOf(Snap.labels["pingap.http.paths"])) = 2
    /\ compiled.config.rule =
         HostPred(<<"h">>) \o <<" ", "&", "&", " ", "(">>
            \o PathPred(<<"/", "x">>) \o <<" ", "|", "|", " ">>
            \o PathPred(<<"/", "y">>) \o <<")">>

\* the snapshot has an IP for the compiler: that of the network the label
\* names, or without the label that of any network
IpResolves ==
    IF Has("pingap.docker.network")
    THEN \E i \in 1..Len(Snap.networks) :
            Snap.networks[i].net = Snap.labels["pingap.docker.network"]
    ELSE Snap.networks # <<>>

EndsWith(s, t) == Len(s) >= Len(t) /\ SubSeq(s, Len(s) - Len(t) + 1, Len(s)) = t

\* the decimal text of the exposed ports used
PortText(p) == IF p = 80 THEN <<"8", "0">> ELSE <<"8", "1">>

\* without a port label and an address override the upstream ends in the
\* first exposed port
UsesFirstExposedPort ==
    (CompiledEnabled /\ ~Has("pingap.service.port")
        /\ ~Has("pingap.service.address") /\ compiled.tag = "Some")
        => /\ Snap.ports # <<>>
           /\ Len(compiled.config.upstreams) = 1
           /\ EndsWith(compiled.config.upstreams[1],
                       <<":">> \o PortText(Snap.ports[1]))

\* C23 as stated: for an enabled container without pingap.service.port and
\* without an address override the upstream uses the first exposed port, and
\* with neither a port label nor an exposed port compile fails with an error
\* that names the pingap.service.port label
C23_PortFallbackNamesLabel ==
    /\ UsesFirstExposedPort
    /\ (CompiledEnabled /\ ~Has("pingap.service.port")
          /\ ~Has("pingap.service.address") /\ Snap.ports = <<>>)
          => ErrNames("pingap.service.port")

\* C23 as amended: the same, but with neither a port label nor an exposed
\* port the error names the pingap.service.port label provided the IP
\* resolved; in every case compile fails
C23_PortFallback ==
    /\ UsesFirstExposedPort
    /\ (CompiledEnabled /\ ~Has("pingap.service.port")
          /\ ~Has("pingap.service.address") /\ Snap.ports = <<>>)
          => /\ compiled.tag = "Err"
             /\ IpResolves => ErrNames("pingap.service.port")

\* a container exposing 81 and 80 without a port label is compiled to an
\* upstream on port 81
C23_Witness ==
    /\ CompiledEnabled
    /\ ~Has("pingap.service.port")
    /\ ~Has("pingap.service.address")
    /\ Snap.ports = <<81, 80>>
    /\ compiled.tag = "Some"
    /\ compiled.config.upstreams = << <<"2", ":", "8", "1">> >>

\* the pingap.service.port values that are unsigned 16-bit integers
U16Texts == { <<"0">>, <<"9", "0">>, <<"6", "5", "5", "3", "5">> }

\* C24: a pingap.service.port value that is an unsigned 16-bit integer (0, 90,
\* 65535) is accepted and is the port of the upstream; any other value (x,
\* -1, 65536, 70000, the empty string) makes compile fail, also when the
\* container exposes ports
C24_PortLabelIsU16 ==
    (CompiledEnabled /\ Has("pingap.service.port")) =>
      LET v == Snap.labels["pingap.service.port"]
      IN  /\ (v \in U16Texts /\ IpResolves /\ HasRuleLabel)
                => /\ compiled.tag = "Some"
                   /\ ~Has("pingap.service.address")
                        => EndsWith(compiled.config.upstreams[1], <<":">> \o v)
          /\ v \notin U16Texts => compiled.tag = "Err"
          /\ (v \notin U16Texts /\ IpResolves)
                => compiled.err.fmt = "Invalid port '{}': {}"

\* port label 65535 on a container exposing 80: the upstream is on 65535
C24_Witness ==
    /\ CompiledEnabled
    /\ Has("pingap.service.port")
    /\ Snap.labels["pingap.service.port"] = <<"6", "5", "5", "3", "5">>
    /\ Snap.ports = <<80>>
    /\ compiled.tag = "Some"
    /\ compiled.config.upstreams = << <<"1", ":", "6", "5", "5", "3", "5">> >>

\* the IP of the networks used: n has 1, m has 2
IpOfNetwork(v) == IF v = <<"n">> THEN <<"1">> ELSE <<"2">>

\* C25: when pingap.docker.network names a network the snapshot does not
\* have, compile fails with the error that lists the snapshot's network
\* names, whatever the primary IP and the other networks are; when the
\* snapshot has the network, the upstream built from the IP holds that
\* network's IP, also when the primary IP is another one
C25_NetworkSelection ==
    (CompiledEnabled /\ Has("pingap.docker.network")) =>
      LET v == Snap.labels["pingap.docker.network"]
      IN  /\ ~IpResolves
                => /\ compiled.tag = "Err"
                   /\ compiled.err.fmt =
                        "Container {} is not connected to network '{}'. Available networks: {:?}"
                   /\ compiled.err.args[2] = [text |-> v]
                   /\ compiled.err.args[3] =
                        [keys |-> { Snap.networks[i].net :
                                      i \in 1..Len(Snap.networks) }]
          /\ (IpResolves /\ compiled.tag = "Some"
                /\ ~Has("pingap.service.address"))
                => StartsWith(compiled.config.upstreams[1],
                              IpOfNetwork(v) \o <<":">>)

\* network m is selected while the primary IP is that of network n
C25_Witness ==
    /\ CompiledEnabled
    /\ Has("pingap.docker.network")
    /\ Snap.labels["pingap.docker.network"] = <<"m">>
    /\ Snap.ip_address = <<"1">>
    /\ compiled.tag = "Some"
    /\ compiled.config.upstreams = << <<"2", ":", "8", "0">> >>

\* the snapshot compiles as far as address and rule are concerned
Compilable ==
    /\ IpResolves
    /\ HasRuleLabel
    /\ IF Has("pingap.service.port")
       THEN Snap.labels["pingap.service.port"] \in U16Texts
       ELSE Snap.ports # <<>>

\* the priority each pingap.http.priority value used stands for: the signed
\* 32-bit integers, and nothing for the others
PriorityOf(v) ==
    IF v = <<"1", "0">> THEN <<10>>
    ELSE IF v = <<"-", "5">> THEN <<0 - 5>>
    ELSE IF v = <<"+", "7">> THEN <<7>>
    ELSE IF v = <<"0", "0", "7">> THEN <<7>>
    ELSE IF v = <<"2", "1", "4", "7", "4", "8", "3", "6", "4", "7">>
         THEN <<2147483647>>
    ELSE IF v = <<"-", "2", "1", "4", "7", "4", "8", "3", "6", "4", "8">>
         THEN <<0 - 2147483647 - 1>>
    ELSE <<>>

\* C26: for an enabled, otherwise compilable container, compile succeeds
\* whatever the pingap.http.priority value is; the priority is that integer
\* when the value is a signed 32-bit integer and absent otherwise
C26_PriorityTolerant ==
    (CompiledEnabled /\ Compilable /\ Has("pingap.http.priority"))
        => /\ compiled.tag = "Some"
           /\ compiled.config.priority =
                PriorityOf(Snap.labels["pingap.http.priority"])

\* priority x is compiled to a configuration without priority
C26_Witness ==
    /\ CompiledEnabled
    /\ Has("pingap.http.priority")
    /\ Snap.labels["pingap.http.priority"] = <<"x">>
    /\ compiled.tag = "Some"
    /\ compiled.config.priority = <<>>

\* the integer label values used that are unsigned 32-bit integers
U32Texts ==
    { <<"1">>, <<"5">>, <<"7">>,
      <<"4", "2", "9", "4", "9", "6", "7", "2", "9", "5">> }

BoolTexts == { <<"t", "r", "u", "e">>, <<"f", "a", "l", "s", "e">> }

\* the error names the label and the container
ErrNamesLabelAndContainer(k) ==
    /\ ErrNames(k)
    /\ \E i \in 1..Len(compiled.err.args) :
          compiled.err.args[i] = [text |-> Snap.name]

\* C27: a value that fails its conversion makes compile return an error that
\* names the label and the container, for the explicit port, for the integer
\* labels pingap.upstream.weight, pingap.middleware.ratelimit.average and
\* pingap.middleware.ratelimit.burst, and for the boolean labels
C27_FailedConversionsAreErrors ==
    CompiledEnabled =>
      /\ (Has("pingap.service.port") /\ IpResolves
            /\ Snap.labels["pingap.service.port"] \notin U16Texts)
            => ErrNamesLabelAndContainer("pingap.service.port")
      /\ \A k \in {"pingap.upstream.weight",
                   "pingap.middleware.ratelimit.average",
                   "pingap.middleware.ratelimit.burst"} :
            (Has(k) /\ Snap.labels[k] \notin U32Texts)
                => ErrNamesLabelAndContainer(k)
      /\ \A k \in {"pingap.http.tls.enabled", "pingap.tls.redirect",
                   "pingap.headers.cors.enable", "pingap.middleware.compress"} :
            (Has(k) /\ Snap.labels[k] \notin BoolTexts)
                => ErrNamesLabelAndContainer(k)

\* the sub-labels of the middleware bundle
BundleLabels ==
    {"pingap.middleware.strip_prefix", "pingap.middleware.add_prefix",
     "pingap.headers.custom_request", "pingap.headers.custom_response",
     "pingap.headers.cors.enable", "pingap.middleware.compress",
     "pingap.middleware.ratelimit.average", "pingap.middleware.ratelimit.burst",
     "pingap.middleware.basic_auth", "pingap.middleware.redirect_scheme",
     "pingap.middleware.redirect_regex"}

\* C28: in the configuration compiled for an enabled, compilable container
\* middleware_config is present when at least one of the eleven sub-labels
\* is present, whatever its value, and absent when none is
C28_BundlePresentIffAnyLabel ==
    (CompiledEnabled /\ Compilable)
        => /\ compiled.tag = "Some"
           /\ compiled.config.middleware_config # <<>>
                <=> (\E k \in BundleLabels : Has(k))

\* the snapshot without the TLS detail labels
WithoutTlsDetail(c) ==
    [c EXCEPT !.labels =
        [k \in DOMAIN c.labels \ {"pingap.tls.redirect", "pingap.tls.domains"}
            |-> c.labels[k]]]

\* C29: the TLS flag of a compiled configuration is absent without
\* pingap.http.tls.enabled, true for the value true and false for any other
\* value; tls_config is present exactly when the flag is true, and otherwise
\* pingap.tls.redirect and pingap.tls.domains change nothing in the result
C29_TlsDetailOnlyWhenTrue ==
    (CompiledEnabled /\ compiled.tag = "Some") =>
      LET flag == compiled.config.tls
      IN  /\ ~Has("pingap.http.tls.enabled") => flag = <<>>
          /\ Has("pingap.http.tls.enabled")
                => flag = <<Snap.labels["pingap.http.tls.enabled"]
                              = <<"t", "r", "u", "e">> >>
          /\ compiled.config.tls_config # <<>> <=> flag = <<TRUE>>
          /\ flag = <<TRUE>> => compiled.config.tls_config[1].enabled
          /\ flag # <<TRUE>>
                => compiled = parse_pingap_config(WithoutTlsDetail(Snap))

\* flag false with pingap.tls.redirect and pingap.tls.domains set: no
\* tls_config
C29_Witness ==
    /\ CompiledEnabled
    /\ compiled.tag = "Some"
    /\ Has("pingap.http.tls.enabled")
    /\ Snap.labels["pingap.http.tls.enabled"] = <<"f", "a", "l", "s", "e">>
    /\ Has("pingap.tls.redirect")
    /\ Has("pingap.tls.domains")
    /\ compiled.config.tls = <<FALSE>>
    /\ compiled.config.tls_config = <<>>

\* ------------------------------------------------------------------------
\* Properties of the location payload
\* ------------------------------------------------------------------------
\* t occurs in s
Contains(s, t) ==
    \E i \in 1..(Len(s) - Len(t) + 1) : SubSeq(s, i, i + Len(t) - 1) = t

\* the rule is built with && or ||
HasCombinator(rule) ==
    Contains(rule, <<"&", "&">>) \/ Contains(rule, <<"|", "|">>)

\* the rule is one predicate with the given opening
SinglePredicate(rule, open) ==
    /\ ~HasCombinator(rule)
    /\ Len(rule) > Len(open)
    /\ SubSeq(rule, 1, Len(open)) = open
    /\ rule[Len(rule)] = ")"

\* C30: in the location payload a successful apply_config has put, host is
\* set only for a rule that is a single Host(..) predicate and path only for
\* a rule that is a single PathPrefix(..) predicate; for a rule built with &&
\* or || both are the empty string, and the upload succeeds
C30_HostPathOnlyForSinglePredicate ==
    [][(/\ AnswerStep
        /\ op.kind = "apply"
        /\ LastAnswer(trace').call = "POST_location"
        /\ LastAnswer(trace').status \in 200..299)
       => LET p == remote'[<<"locations", op.config.name>>]
              rule == op.config.rule
          IN  /\ outcome' = "applied"
              /\ p.host # <<>>
                    => SinglePredicate(rule, <<"H", "o", "s", "t", "(">>)
              /\ p.path # <<>>
                    => SinglePredicate(rule, <<"P", "a", "t", "h", "P", "r", "e",
                                               "f", "i", "x", "(">>)
              /\ HasCombinator(rule) => (p.host = <<>> /\ p.path = <<>>)]_vars

\* the service name a snapshot is to get: the name label, else the display
\* name without its leading slash
NameOf(c) ==
    IF "pingap.service.name" \in DOMAIN c.labels
    THEN c.labels["pingap.service.name"]
    ELSE IF c.name # <<>> /\ Head(c.name) = "/" THEN Tail(c.name) ELSE c.name

\* C31: the compiled service name is the value of pingap.service.name when
\* that label is present, otherwise the display name with its leading '/'
\* removed; apply_config names its upstream and its location request by this
\* value, and it is the value recorded in container_services
C31_OneServiceName ==
    [][/\ (pc = "sync" /\ sync # <<>> /\ op'.kind = "apply")
            => op'.name = NameOf(Head(sync))
       /\ (pc = "inspect" /\ op'.kind = "apply")
            => op'.name \in { NameOf(c) : c \in Infos(msg.id) }
       /\ (op.kind = "none" /\ op'.kind = "apply")
            => op'.config.name = op'.name
       /\ (op.kind = "apply" /\ op'.kind = "apply")
            => (op'.name = op.name /\ op'.config = op.config)
       /\ (op.kind = "apply" /\ outcome' = "applied")
            => Entry(container_services', op.id) = op.name]_vars

C31_Witness ==
    /\ outcome = "applied"
    /\ Entry(container_services, "c1") = <<"a">>
    /\ Entry(container_services, "c2") = <<"b">>

\* the event the loop is about to take is a die or stop of identity id
NextIsStopOf(id) ==
    /\ pc = "select"
    /\ events # <<>>
    /\ Head(events).kind = "msg"
    /\ Head(events).action \in {"die", "stop"}
    /\ Head(events).id = id

\* C32: on a die or stop event for a tracked identity the entry is out of
\* container_services before delete_config has made a call, and no step of
\* delete_config, its final error included, puts it back
C32_RemovedBeforeDelete ==
    [][/\ \A id \in DOMAIN container_services :
            (NextIsStopOf(id) /\ started' = started + 1)
                => /\ id \notin DOMAIN container_services'
                   /\ op'.kind = "delete"
                   /\ op'.id = id
                   /\ op'.attempt = <<>>
                   /\ op'.failed = ""
       /\ op.kind = "delete" => op.id \notin DOMAIN container_services']_vars

C32_Witness ==
    /\ pc = "select"
    /\ outcome = "delete_err"
    /\ stopLog.tracked
    /\ stopLog.handled = 1
    /\ stopLog.id \notin DOMAIN container_services

\* C33: once delete_config has returned its final error for the die or stop
\* event of a tracked identity, the next die or stop event of that identity
\* does not start delete_config for that service again
C33_NoSecondDeleteAfterError ==
    [][(/\ outcome = "delete_err"
        /\ stopLog.tracked
        /\ stopLog.handled = 1
        /\ NextIsStopOf(stopLog.id)
        /\ started' = started + 1)
       => ~(op'.kind = "delete" /\ op'.name = stopLog.name)]_vars

\* C34: for the attributes made of a container's labels and its name, the
\* fallback of the die/stop branch resolves a service name exactly when
\* parse_pingap_config does not treat the container as disabled, and the
\* name it resolves is the name of the compiled configuration
C34_FallbackAgreesWithCompiler ==
    pc = "resolved"
    => /\ stopLog.name # None <=> compiled.tag # "None"
       /\ compiled.tag = "Some" => stopLog.name = compiled.config.name

C34_Witness ==
    /\ pc = "resolved"
    /\ compiled.tag = "Some"
    /\ "pingap.service.name" \notin DOMAIN Snap.labels
    /\ stopLog.name = <<"a">>
    /\ stopLog.deletes = 1

\* C35: with the remote modified by this program alone, after any sequence
\* of apply_config and delete_config attempts, failed ones included, the
\* remote holds the upstream of every service whose location it holds
C35_LocationHasUpstream ==
    \A r \in DOMAIN remote :
        r[1] = "locations" => <<"upstreams", r[2]>> \in DOMAIN remote

C35_Witness ==
    /\ outcome \in {"apply_err", "delete_err"}
    /\ <<"locations", <<"a">>>> \in DOMAIN remote
    /\ <<"upstreams", <<"b">>>> \in DOMAIN remote
    /\ <<"locations", <<"b">>>> \notin DOMAIN remote

UpstreamWasPut(t) ==
    \E i \in DOMAIN t : t[i].call = "POST_upstream" /\ t[i].status = 200

\* C38, as stated: apply_config is all-or-nothing on the remote, a call that
\* returns a final error leaves no upstream and no location that was not
\* there before; so, as long as no apply_config has returned success, the
\* remote is empty whenever no call is running
C38_ApplyAllOrNothing ==
    (op.kind = "none" /\ ~applied["c1"]) => remote = <<>>

\* C38, amended: a step of apply_config that does not end the call in
\* success changes nothing on the remote but the upstream of the service,
\* and when the call returns its final error after an upstream request was
\* answered with success, that upstream is on the remote with the addresses
\* of the configuration
C38_ApplyKeepsUpstream ==
    [][op.kind = "apply"
       => /\ outcome' # "applied"
             => \A r \in (DOMAIN remote \cup DOMAIN remote')
                         \ {<<"upstreams", op.name>>} :
                    /\ r \in DOMAIN remote
                    /\ r \in DOMAIN remote'
                    /\ remote'[r] = remote[r]
          /\ (outcome' = "apply_err" /\ UpstreamWasPut(trace'))
             => /\ <<"upstreams", op.name>> \in DOMAIN remote'
                /\ remote'[<<"upstreams", op.name>>].addrs = op.config.upstreams]_vars

C38_Witness ==
    /\ outcome = "apply_err"
    /\ UpstreamWasPut(trace)
    /\ DOMAIN remote = {<<"upstreams", <<"a">>>>}

\* C39: the handling of a start event for an identity that is tracked
\* leaves its entry as it is when inspect fails, compile fails, compile
\* yields no configuration or apply_config returns its final error, puts the
\* newly compiled name in its place when apply_config succeeds, and at no
\* step invokes delete_config
C39_RestartKeepsOrOverwrites ==
    [][/\ \A id \in DOMAIN container_services :
            (/\ pc = "select"
             /\ events # <<>>
             /\ Head(events).kind = "msg"
             /\ Head(events).action = "start"
             /\ Head(events).id = id
             /\ started' = started + 1)
            => (container_services' = container_services /\ op' = NoOp)
       /\ (msg.action = "start" /\ msg.id \in DOMAIN container_services)
            => /\ op'.kind # "delete"
               /\ outcome' \in {"pending", "inspect_fail", "compile_err",
                                "disabled", "apply_err", "applied"}
               /\ IF outcome' = "applied"
                  THEN container_services' =
                          [container_services EXCEPT ![msg.id] = op.config.name]
                  ELSE container_services' = container_services]_vars

C39_Witness ==
    /\ msg.action = "start"
    /\ msg.id \in DOMAIN container_services
    /\ pc = "apply_location"
    /\ op.failed = "POST_location"
    /\ op.name # container_services[msg.id]

====
